---- MODULE Spec2Model ----
(***************************************************************************)
(* A model of bflib's splash-damage engine (src/bflib/src/splash.rs):      *)
(* the weapon tracker, the blast engine with its ordnance-protection       *)
(* filter, the cook-off scheduler with its movement tracker, and the       *)
(* adaptive performance governor.                                          *)
(*                                                                         *)
(* Units.  Times are milliseconds.  Positions are <<x, y, z>> in           *)
(* decimetres (0.1 m), y being the altitude.  Powers, multipliers and      *)
(* chances are thousandths (1.5 is 1500).  Distances are compared by their *)
(* squares, so no square root is needed: d <= r iff d*d <= r*r.            *)
(*                                                                         *)
(* Every handler of the source is an operator from the engine record (the  *)
(* fields of SplashDamage and CookOff) and the host's answers to the       *)
(* engine record after the call; an action applies one handler to the      *)
(* variables.  The record also carries the host requests the call made     *)
(* (out), the number of host effect calls so far (calls), and whether the  *)
(* call is returning Err (err).                                            *)
(***************************************************************************)
EXTENDS Integers, Sequences, FiniteSets, TLC

(***************************************************************************)
(* Bounds of the model.                                                    *)
(***************************************************************************)
MaxTime == 16000
MaxTimeC == 3000
MaxTimeLong == 300000
MaxTimeG == 6500
MaxTimeS == 1000
MaxFailAt == 2
MaxRecent == 2
MaxTimeP == 5000
MaxTimeL == 5000

WeaponIds == {1, 2}
UnitIds == {1, 2}
None == <<>>

(***************************************************************************)
(* Arithmetic helpers.                                                     *)
(***************************************************************************)
Mul(a, b) == (a * b) \div 1000

Max2(a, b) == IF a >= b THEN a ELSE b

Min2(a, b) == IF a <= b THEN a ELSE b

RECURSIVE ICbrtFrom(_, _)
ICbrtFrom(n, r) == IF (r + 1) * (r + 1) * (r + 1) > n THEN r ELSE ICbrtFrom(n, r + 1)

\* floor of the cube root
ICbrt(n) == ICbrtFrom(n, 0)

RECURSIVE SeqSum(_)
SeqSum(s) == IF s = <<>> THEN 0 ELSE Head(s) + SeqSum(Tail(s))

\* all orders in which the members of S can be enumerated (HashMap iteration)
Perms(S) == {p \in [1..Cardinality(S) -> S] : \A i, j \in 1..Cardinality(S) : i # j => p[i] # p[j]}

(***************************************************************************)
(* distance_3d, squared, and is_within_sphere.                             *)
(***************************************************************************)
distance_3d_sq(a, b) ==
    (a[1] - b[1]) * (a[1] - b[1]) + (a[2] - b[2]) * (a[2] - b[2]) + (a[3] - b[3]) * (a[3] - b[3])

is_within_sphere(center, position, radius) ==
    distance_3d_sq(center, position) <= radius * radius

(***************************************************************************)
(* SplashConfig::default, cut to a few entries of the weapon table: a      *)
(* bomb, a rocket, a HEAT missile, a cluster bomb (power 0 in the table).  *)
(***************************************************************************)
WeaponNames == {"Mk_82", "3xM8_ROCKETS_IN_TUBES", "AGM_65D", "CBU_99"}

UnconfiguredWeapon == "AIM_120"

DefaultSplashConfig ==
    [ enabled |-> TRUE,
      weapon_powers |-> [n \in WeaponNames |->
            CASE n = "Mk_82" -> 100000
              [] n = "3xM8_ROCKETS_IN_TUBES" -> 4000
              [] n = "AGM_65D" -> 38000
              [] n = "CBU_99" -> 0],
      heat_weapons |-> {"AGM_65D"},
      wave_explosions |-> [enabled |-> TRUE, scaling |-> 2000, damage_threshold |-> 100,
                           always_cascade_explode |-> FALSE],
      blast_wave |-> [search_radius |-> 900, use_dynamic_radius |-> TRUE,
                      dynamic_radius_modifier |-> 2000],
      shaped_charge |-> [enabled |-> TRUE, multiplier |-> 200],
      cluster_bombs |-> [enabled |-> TRUE,
                         base_length |-> 1500, base_width |-> 2000,
                         max_length |-> 3000, max_width |-> 4000,
                         min_length |-> 1000, min_width |-> 1500,
                         bomblet_reduction_modifier |-> TRUE,
                         bomblet_damage_modifier |-> 2000,
                         submunition_powers |-> [n \in {"Mk 118"} |-> 2000]],
      ordnance_protection |-> [enabled |-> TRUE, protection_radius |-> 200,
                               detect_ordnance_destruction |-> TRUE,
                               snap_to_ground_if_destroyed |-> TRUE,
                               max_snapped_height |-> 800,
                               recent_large_explosion_snap |-> TRUE,
                               recent_large_explosion_range |-> 1000,
                               recent_large_explosion_time |-> 4000],
      overall_scaling |-> 1500,
      rocket_multiplier |-> 1300,
      only_players_weapons |-> FALSE,
      cascade_damage_threshold |-> 50,
      cascade_explode_threshold |-> 80,
      cascade_scaling |-> 2000 ]

\* weapon_name.contains("ROCKET") || weapon_name.contains("rocket")
IsRocketName(n) == n \in {"3xM8_ROCKETS_IN_TUBES", "3xM8_ROCKETS_IN_TUBES_cascade"}

\* format!("{}_cascade", weapon_type)
CascadeName(n) ==
    CASE n = "Mk_82" -> "Mk_82_cascade"
      [] n = "3xM8_ROCKETS_IN_TUBES" -> "3xM8_ROCKETS_IN_TUBES_cascade"
      [] n = "AGM_65D" -> "AGM_65D_cascade"
      [] n = "CBU_99" -> "CBU_99_cascade"
      [] OTHER -> "other_cascade"

VARIABLES
    now,                      \* the host's clock (Utc::now and the now the host passes)
    config,                   \* SplashDamage.config
    tracked_weapons,          \* SplashDamage.tracked_weapons: weapon id -> TrackedWeapon
    recent_explosions,        \* SplashDamage.recent_explosions
    cookoff_config,           \* CookOff.config
    units,                    \* CookOff.units: unit type -> UnitProperties
    pending_effects,          \* CookOff.pending_effects: unit id -> PendingCookOffEffect
    processed_units,          \* CookOff.processed_units: unit id -> time
    processed_smoke,          \* CookOff.processed_smoke (its keys)
    effect_queue,             \* CookOff.effect_queue
    timed_explosions,         \* CookOff.timed_explosions
    movement_tracking,        \* CookOff.movement_tracking: unit id -> MovementTracker
    update_times,             \* CookOff.update_times
    last_update_time,         \* CookOff.last_update_time
    adaptive_update_interval, \* CookOff.adaptive_update_interval
    performance_mode,         \* CookOff.performance_mode
    nextWeaponId,             \* the next object id the host hands to a weapon
    op,                       \* the last operation and what it was given
    out,                      \* the host requests the last operation made, in order
    log,                      \* what the last operation decided, in order
    hist                      \* history of the run

engineVars == <<config, tracked_weapons, recent_explosions, cookoff_config, units,
                pending_effects, processed_units, processed_smoke, effect_queue,
                timed_explosions, movement_tracking, update_times, last_update_time,
                adaptive_update_interval, performance_mode>>

vars == <<now, config, tracked_weapons, recent_explosions, cookoff_config, units,
          pending_effects, processed_units, processed_smoke, effect_queue,
          timed_explosions, movement_tracking, update_times, last_update_time,
          adaptive_update_interval, performance_mode, nextWeaponId,
          op, out, log, hist>>

\* the engine as one record, with the bookkeeping of one call
Engine ==
    [ config |-> config, tracked_weapons |-> tracked_weapons,
      recent_explosions |-> recent_explosions, cookoff_config |-> cookoff_config,
      units |-> units, pending_effects |-> pending_effects,
      processed_units |-> processed_units, processed_smoke |-> processed_smoke,
      effect_queue |-> effect_queue, timed_explosions |-> timed_explosions,
      movement_tracking |-> movement_tracking, update_times |-> update_times,
      last_update_time |-> last_update_time,
      adaptive_update_interval |-> adaptive_update_interval,
      performance_mode |-> performance_mode,
      out |-> <<>>, log |-> <<>>, calls |-> 0, err |-> FALSE, cur |-> 0 ]

\* the variables take the fields of the engine record e
Install(e) ==
    /\ config' = e.config
    /\ tracked_weapons' = e.tracked_weapons
    /\ recent_explosions' = e.recent_explosions
    /\ cookoff_config' = e.cookoff_config
    /\ units' = e.units
    /\ pending_effects' = e.pending_effects
    /\ processed_units' = e.processed_units
    /\ processed_smoke' = e.processed_smoke
    /\ effect_queue' = e.effect_queue
    /\ timed_explosions' = e.timed_explosions
    /\ movement_tracking' = e.movement_tracking
    /\ update_times' = e.update_times
    /\ last_update_time' = e.last_update_time
    /\ adaptive_update_interval' = e.adaptive_update_interval
    /\ performance_mode' = e.performance_mode
    /\ out' = e.out
    /\ log' = e.log

(***************************************************************************)
(* The host.  A host effect call (trigger.action().explosion,              *)
(* effect_smoke_big, signal_flare, with the Trigger lookup before it) is   *)
(* recorded in out; the h.fail-th call of an operation fails (0: none).    *)
(***************************************************************************)
HostCall(e, h, req) ==
    LET k == e.calls + 1
    IN [e EXCEPT !.calls = k,
                 !.out = Append(@, [kind |-> req.kind, tag |-> req.tag, pos |-> req.pos,
                                     power |-> req.power, src |-> e.cur, ok |-> (k # h.fail)]),
                 !.err = (k = h.fail)]

\* an Err that the caller logs and drops
Swallow(e) == [e EXCEPT !.err = FALSE]

(***************************************************************************)
(* Terrain and positions.                                                  *)
(***************************************************************************)
\* get_ground_height: land.getHeight, the terrain of the model being flat
get_ground_height(h, position) == 0

get_ground_position_with_offset(h, position, height_offset) ==
    <<position[1], get_ground_height(h, position) + height_offset, position[3]>>

\* pow(power, 1/3) * 10 * modifier, in decimetres
calculate_dynamic_blast_radius(e, power) ==
    (ICbrt(power) * 10 * e.config.blast_wave.dynamic_radius_modifier) \div 1000

(***************************************************************************)
(* The ordnance-protection filter.                                         *)
(***************************************************************************)
\* check_recent_large_explosions without the time window
check_recent_large_explosions_any_age(e, position) ==
    \E i \in 1..Len(e.recent_explosions) :
        LET recent == e.recent_explosions[i]
        IN /\ is_within_sphere(recent.position, position,
                               e.config.ordnance_protection.recent_large_explosion_range)
           /\ recent.radius > 500

check_recent_large_explosions(e, position) ==
    \E i \in 1..Len(e.recent_explosions) :
        LET recent == e.recent_explosions[i]
        IN /\ now - recent.time <= e.config.ordnance_protection.recent_large_explosion_time
           /\ is_within_sphere(recent.position, position,
                               e.config.ordnance_protection.recent_large_explosion_range)
           /\ recent.radius > 500

\* check_ordnance_protection without the scan of the recorded explosions
check_ordnance_protection_tracked_only(e, h, position) ==
    IF ~e.config.ordnance_protection.enabled THEN TRUE
    ELSE IF \E w \in DOMAIN e.tracked_weapons :
                is_within_sphere(e.tracked_weapons[w].position, position,
                                 e.config.ordnance_protection.protection_radius)
         THEN FALSE
    ELSE IF /\ e.config.ordnance_protection.recent_large_explosion_snap
            /\ check_recent_large_explosions(e, position)
         THEN FALSE
    ELSE TRUE

\* whether check_ordnance_destruction logs that the ordnance may have been
\* destroyed: the point is within max_snapped_height of the ground
check_ordnance_destruction(e, h, position) ==
    /\ e.config.ordnance_protection.snap_to_ground_if_destroyed
    /\ position[2] - get_ground_height(h, position)
           <= e.config.ordnance_protection.max_snapped_height

\* check_ordnance_protection that rejects a point whose ordnance the
\* destruction check finds destroyed
check_ordnance_protection_destroyed_blocks(e, h, position) ==
    IF ~e.config.ordnance_protection.enabled THEN TRUE
    ELSE IF \E i \in 1..Len(e.recent_explosions) :
                is_within_sphere(e.recent_explosions[i].position, position,
                                 e.config.ordnance_protection.protection_radius)
         THEN FALSE
    ELSE IF \E w \in DOMAIN e.tracked_weapons :
                is_within_sphere(e.tracked_weapons[w].position, position,
                                 e.config.ordnance_protection.protection_radius)
         THEN FALSE
    ELSE IF /\ e.config.ordnance_protection.detect_ordnance_destruction
            /\ check_ordnance_destruction(e, h, position)
         THEN FALSE
    ELSE IF /\ e.config.ordnance_protection.recent_large_explosion_snap
            /\ check_recent_large_explosions(e, position)
         THEN FALSE
    ELSE TRUE

\* the destruction check (detect_ordnance_destruction) only logs: its outcome
\* is not part of the verdict
check_ordnance_protection(e, h, position) ==
    IF ~e.config.ordnance_protection.enabled THEN TRUE
    ELSE IF \E i \in 1..Len(e.recent_explosions) :
                is_within_sphere(e.recent_explosions[i].position, position,
                                 e.config.ordnance_protection.protection_radius)
         THEN FALSE
    ELSE IF \E w \in DOMAIN e.tracked_weapons :
                is_within_sphere(e.tracked_weapons[w].position, position,
                                 e.config.ordnance_protection.protection_radius)
         THEN FALSE
    ELSE LET destroyed == /\ e.config.ordnance_protection.detect_ordnance_destruction
                          /\ check_ordnance_destruction(e, h, position)
         IN IF /\ e.config.ordnance_protection.recent_large_explosion_snap
               /\ check_recent_large_explosions(e, position)
            THEN FALSE
            ELSE TRUE

RECURSIVE PruneFront(_, _)
PruneFront(q, cutoff_time) ==
    IF q # <<>> /\ Head(q).time < cutoff_time THEN PruneFront(Tail(q), cutoff_time) ELSE q

add_recent_explosion(e, position, radius) ==
    [e EXCEPT !.recent_explosions =
        PruneFront(Append(@, [position |-> position, time |-> now, radius |-> radius]),
                   now - 10000)]

(***************************************************************************)
(* Explosions.                                                             *)
(***************************************************************************)
create_explosion_with_power_static(e, h, weapon_name, position, power) ==
    LET ground_position == get_ground_position_with_offset(h, position, 16)
        e1 == HostCall(e, h, [kind |-> "explosion", tag |-> weapon_name,
                              pos |-> ground_position, power |-> power])
    IN IF e1.err THEN e1
       ELSE Swallow(HostCall(e1, h, [kind |-> "smoke", tag |-> weapon_name,
                                     pos |-> ground_position, power |-> 0]))

is_cluster_bomb(weapon_name) == weapon_name \in {"CBU_99", "CBU_99_cascade"}

get_submunition_name(weapon_name) == IF weapon_name = "CBU_99" THEN "Mk 118" ELSE "Generic"

calculate_bomblet_count(e, power) ==
    LET base_count == power \div 10000
    IN IF e.config.cluster_bombs.bomblet_reduction_modifier
       THEN Max2(base_count \div 2, 1)
       ELSE Max2(base_count, 1)

\* the spread grows with the power up to power 100 and is kept between the
\* minimum and the maximum
calculate_bomblet_spread(e, power, is_forward) ==
    LET c == e.config.cluster_bombs
        base_spread == IF is_forward THEN c.base_length ELSE c.base_width
        max_spread == IF is_forward THEN c.max_length ELSE c.max_width
        min_spread == IF is_forward THEN c.min_length ELSE c.min_width
        power_factor == Min2(power \div 100, 1000)
        spread == base_spread + Mul(max_spread - base_spread, power_factor)
    IN Min2(Max2(spread, min_spread), max_spread)

\* cosine and sine, in thousandths, of index / total_count of a full turn,
\* for up to four bomblets
UnitCircle(index, total_count) ==
    CASE index = 0 -> <<1000, 0>>
      [] 2 * index = total_count -> <<-1000, 0>>
      [] 4 * index = total_count -> <<0, 1000>>
      [] 4 * index = 3 * total_count -> <<0, -1000>>
      [] 3 * index = total_count -> <<-500, 866>>
      [] 3 * index = 2 * total_count -> <<-500, -866>>

\* the bomblets lie on a spiral: index 0 is its centre
calculate_bomblet_position(center, length, width, index, total_count) ==
    LET radius == (index * (length + width)) \div (2 * total_count)
        offset_x == (radius * UnitCircle(index, total_count)[1]) \div 1000
        offset_z == (radius * UnitCircle(index, total_count)[2]) \div 1000
    IN <<center[1] + offset_x, center[2], center[3] + offset_z>>

RECURSIVE BombletsFrom(_, _, _, _, _, _)
BombletsFrom(e, h, position, power, weapon_name, i) ==
    IF i >= calculate_bomblet_count(e, power) THEN e
    ELSE LET submunition_name == get_submunition_name(weapon_name)
             table == e.config.cluster_bombs.submunition_powers
             bomblet_power == IF submunition_name \in DOMAIN table
                              THEN table[submunition_name]
                              ELSE Mul(power, e.config.cluster_bombs.bomblet_damage_modifier)
             e1 == Swallow(create_explosion_with_power_static(e, h, "bomblet",
                       calculate_bomblet_position(position,
                           calculate_bomblet_spread(e, power, TRUE),
                           calculate_bomblet_spread(e, power, FALSE),
                           i, calculate_bomblet_count(e, power)),
                       bomblet_power))
         IN BombletsFrom(e1, h, position, power, weapon_name, i + 1)

handle_cluster_bomb_effects(e, h, position, power, weapon_name) ==
    BombletsFrom(e, h, position, power, weapon_name, 0)

\* the explosion of create_explosion with the shaped-charge multiplier applied
\* to every weapon, HEAT or not
AllowedExplosion_every_weapon_shaped(e, h, weapon_name, position) ==
    LET explosion_power == e.config.weapon_powers[weapon_name]
        scaled == Mul(explosion_power, e.config.overall_scaling)
        rocket == IF IsRocketName(weapon_name)
                  THEN Mul(scaled, e.config.rocket_multiplier) ELSE scaled
        final_power == IF e.config.shaped_charge.enabled
                       THEN Mul(rocket, e.config.shaped_charge.multiplier) ELSE rocket
        e1 == IF e.config.cluster_bombs.enabled /\ is_cluster_bomb(weapon_name)
              THEN handle_cluster_bomb_effects(e, h, position, final_power, weapon_name)
              ELSE e
        ground_position == get_ground_position_with_offset(h, position, 1)
        e2 == HostCall(e1, h, [kind |-> "explosion", tag |-> weapon_name,
                               pos |-> ground_position, power |-> final_power])
    IN IF e2.err THEN e2
       ELSE Swallow(HostCall(e2, h, [kind |-> "smoke", tag |-> weapon_name,
                                     pos |-> ground_position, power |-> 0]))

\* SplashDamage::create_explosion
AllowedExplosion(e, h, weapon_name, position) ==
    LET explosion_power == e.config.weapon_powers[weapon_name]
        scaled == Mul(explosion_power, e.config.overall_scaling)
        rocket == IF IsRocketName(weapon_name)
                  THEN Mul(scaled, e.config.rocket_multiplier) ELSE scaled
        final_power == IF e.config.shaped_charge.enabled /\ weapon_name \in e.config.heat_weapons
                       THEN Mul(rocket, e.config.shaped_charge.multiplier) ELSE rocket
        e1 == IF e.config.cluster_bombs.enabled /\ is_cluster_bomb(weapon_name)
              THEN handle_cluster_bomb_effects(e, h, position, final_power, weapon_name)
              ELSE e
        ground_position == get_ground_position_with_offset(h, position, 1)
        e2 == HostCall(e1, h, [kind |-> "explosion", tag |-> weapon_name,
                               pos |-> ground_position, power |-> final_power])
    IN IF e2.err THEN e2
       ELSE Swallow(HostCall(e2, h, [kind |-> "smoke", tag |-> weapon_name,
                                     pos |-> ground_position, power |-> 0]))

\* create_explosion without the filter
create_explosion_unfiltered(e, h, weapon_name, position) ==
    IF weapon_name \notin DOMAIN e.config.weapon_powers THEN e
    ELSE IF e.config.weapon_powers[weapon_name] <= 0 THEN e
    ELSE AllowedExplosion(e, h, weapon_name, position)

\* create_explosion whose filter guards the explosion but not its smoke
create_explosion_smoke_unguarded(e, h, weapon_name, position) ==
    IF weapon_name \notin DOMAIN e.config.weapon_powers THEN e
    ELSE IF e.config.weapon_powers[weapon_name] <= 0 THEN e
    ELSE IF ~check_ordnance_protection(e, h, position)
         THEN Swallow(HostCall(e, h, [kind |-> "smoke", tag |-> weapon_name,
                                      pos |-> get_ground_position_with_offset(h, position, 1),
                                      power |-> 0]))
    ELSE AllowedExplosion(e, h, weapon_name, position)

create_explosion(e, h, weapon_name, position) ==
    IF weapon_name \notin DOMAIN e.config.weapon_powers THEN e
    ELSE IF e.config.weapon_powers[weapon_name] <= 0 THEN e
    ELSE IF ~check_ordnance_protection(e, h, position) THEN e
    ELSE AllowedExplosion(e, h, weapon_name, position)

(***************************************************************************)
(* The blast wave.  h.scan_ok tells whether the host's world search        *)
(* answers; h.units are the objects of the host's world.                   *)
(***************************************************************************)
RECURSIVE ScanFrom(_, _, _, _)
ScanFrom(h, center, radius, u) ==
    IF u \notin UnitIds THEN <<>>
    ELSE IF u \in DOMAIN h.units /\ is_within_sphere(center, h.units[u].position, radius)
         THEN <<[position |-> h.units[u].position,
                 distance_sq |-> distance_3d_sq(center, h.units[u].position),
                 health |-> 1, max_health |-> 1,
                 unit_type |-> h.units[u].unit_type,
                 is_ground_unit |-> TRUE]>> \o ScanFrom(h, center, radius, u + 1)
         ELSE ScanFrom(h, center, radius, u + 1)

\* scan_units_in_radius reporting every unit as destroyed
scan_units_in_radius_no_health(e, h, center, radius) ==
    [i \in 1..Len(ScanFrom(h, center, radius, 1)) |->
        [ScanFrom(h, center, radius, 1)[i] EXCEPT !.health = 0]]

scan_units_in_radius(e, h, center, radius) == ScanFrom(h, center, radius, 1)

\* explosion_power / distance^2, distance in metres
calculate_blast_damage(distance_sq, explosion_power) ==
    IF distance_sq <= 0 THEN explosion_power
    ELSE Max2((explosion_power * 100) \div distance_sq, 0)

\* process_unit_for_cascade that takes damage equal to the threshold as too
\* little
process_unit_for_cascade_above_only(e, h, unit_data, explosion_power) ==
    LET damage == calculate_blast_damage(unit_data.distance_sq, explosion_power)
    IN IF damage <= e.config.cascade_damage_threshold THEN e
       ELSE IF unit_data.health * 100 > e.config.cascade_explode_threshold * unit_data.max_health
            THEN e
       ELSE create_explosion_with_power_static(e, h, "ground_cascade", unit_data.position,
                                               Mul(damage, e.config.cascade_scaling))

\* health / max_health * 100 > cascade_explode_threshold, without the division
process_unit_for_cascade(e, h, unit_data, explosion_power) ==
    LET damage == calculate_blast_damage(unit_data.distance_sq, explosion_power)
    IN IF damage < e.config.cascade_damage_threshold THEN e
       ELSE IF unit_data.health * 100 > e.config.cascade_explode_threshold * unit_data.max_health
            THEN e
       ELSE create_explosion_with_power_static(e, h, "ground_cascade", unit_data.position,
                                               Mul(damage, e.config.cascade_scaling))

RECURSIVE CascadeEach(_, _, _, _)
CascadeEach(e, h, found_units, power) ==
    IF found_units = <<>> THEN e
    ELSE CascadeEach(Swallow(process_unit_for_cascade(e, h, Head(found_units), power)),
                     h, Tail(found_units), power)

execute_blast_wave(e, h, center, blast_radius, power) ==
    IF ~h.scan_ok THEN e
    ELSE CascadeEach(e, h, scan_units_in_radius(e, h, center, blast_radius), power)

create_cascade_explosions(e, h, center, power, weapon_type) ==
    IF ~e.config.wave_explosions.always_cascade_explode THEN e
    ELSE IF Mul(power, e.config.wave_explosions.scaling) >= e.config.wave_explosions.damage_threshold
         THEN create_explosion(e, h, CascadeName(weapon_type),
                               <<center[1] + 500, center[2], center[3] + 500>>)
    ELSE e

schedule_wave_effects(e, h, center, power, weapon_type) ==
    IF e.config.wave_explosions.scaling > 1000
    THEN create_cascade_explosions(e, h, center, power, weapon_type)
    ELSE e

\* what the engine holds when the explosion of an impact is attempted
Attempt(e, ground_position, weapon_type) ==
    [kind |-> "attempt", w |-> e.cur, weapon_type |-> weapon_type,
     pos |-> ground_position, at |-> now,
     recent |-> e.recent_explosions,
     tracked |-> {e.tracked_weapons[w].position : w \in DOMAIN e.tracked_weapons},
     ids |-> DOMAIN e.tracked_weapons]

create_wave_explosion(e, h, center, power, weapon_type) ==
    IF ~e.config.wave_explosions.enabled THEN e
    ELSE LET blast_radius == IF e.config.blast_wave.use_dynamic_radius
                             THEN calculate_dynamic_blast_radius(e, power)
                             ELSE e.config.blast_wave.search_radius
             ground_position == <<center[1], get_ground_height(h, center) + 1, center[3]>>
             e0 == [e EXCEPT !.log = Append(@, Attempt(e, ground_position, weapon_type))]
             e1 == create_explosion(e0, h, weapon_type, ground_position)
         IN IF e1.err THEN e1
            ELSE LET e2 == add_recent_explosion(e1, ground_position, blast_radius)
                     e3 == execute_blast_wave(e2, h, ground_position, blast_radius, power)
                 IN IF e3.err THEN e3
                    ELSE schedule_wave_effects(e3, h, ground_position, power, weapon_type)

(***************************************************************************)
(* The weapon tracker.  h.weapons[w] is the host's answer about weapon w:  *)
(* whether the object exists, and if so its position (point_ok: whether    *)
(* the position query answers) and the terrain intersection the host       *)
(* computes for it (None when it finds none).                              *)
(***************************************************************************)
calculate_predicted_impact(h, ip) ==
    IF ip = None THEN None ELSE <<ip[1], get_ground_height(h, ip) + 1, ip[3]>>

\* handle_weapon_shot without the check of the power table
handle_weapon_shot_any_type(e, h, weapon_id, weapon_type) ==
    IF ~e.config.enabled THEN e
    ELSE IF ~h.is_exist_ok THEN [e EXCEPT !.err = TRUE]
    ELSE IF ~h.is_exist THEN e
    ELSE IF e.config.only_players_weapons /\ ~h.is_player THEN e
    ELSE [e EXCEPT !.tracked_weapons =
            [w \in DOMAIN @ \cup {weapon_id} |->
                IF w = weapon_id
                THEN [weapon_type |-> weapon_type,
                      position |-> IF h.point_ok THEN h.position ELSE <<0, 0, 0>>,
                      predicted_impact |-> None]
                ELSE @[w]]]

\* h.is_exist_ok: the host answers is_exist and object_id; h.point_ok: it
\* answers get_point
handle_weapon_shot(e, h, weapon_id, weapon_type) ==
    IF ~e.config.enabled THEN e
    ELSE IF ~h.is_exist_ok THEN [e EXCEPT !.err = TRUE]
    ELSE IF ~h.is_exist THEN e
    ELSE IF e.config.only_players_weapons /\ ~h.is_player THEN e
    ELSE IF weapon_type \notin DOMAIN e.config.weapon_powers THEN e
    ELSE [e EXCEPT !.tracked_weapons =
            [w \in DOMAIN @ \cup {weapon_id} |->
                IF w = weapon_id
                THEN [weapon_type |-> weapon_type,
                      position |-> IF h.point_ok THEN h.position ELSE <<0, 0, 0>>,
                      predicted_impact |-> None]
                ELSE @[w]]]

\* the impacts of a tick, in the order the tracker is iterated
RECURSIVE ExplosionsToCreate(_, _, _)
ExplosionsToCreate(e, h, order) ==
    IF order = <<>> THEN <<>>
    ELSE LET w == Head(order)
             t == e.tracked_weapons[w]
         IN IF ~h.weapons[w].exists /\ t.weapon_type \in DOMAIN e.config.weapon_powers
            THEN <<[w |-> w,
                    explosion_point |-> IF t.predicted_impact # None
                                        THEN t.predicted_impact ELSE t.position,
                    explosion_power |-> e.config.weapon_powers[t.weapon_type],
                    weapon_type |-> t.weapon_type]>> \o ExplosionsToCreate(e, h, Tail(order))
            ELSE ExplosionsToCreate(e, h, Tail(order))

RECURSIVE CreateEach(_, _, _)
CreateEach(e, h, explosions) ==
    IF explosions = <<>> THEN e
    ELSE LET x == Head(explosions)
             e1 == create_wave_explosion([e EXCEPT !.cur = x.w], h, x.explosion_point,
                                         x.explosion_power, x.weapon_type)
         IN CreateEach(Swallow(e1), h, Tail(explosions))

\* check_weapon_impacts that drops a gone weapon only when it has an explosion
\* of positive power to make
check_weapon_impacts_keep_unexploded(e, h) ==
    IF ~e.config.enabled THEN e
    ELSE LET explosions == ExplosionsToCreate(e, h, h.order)
             still == {w \in DOMAIN e.tracked_weapons :
                          \/ h.weapons[w].exists
                          \/ e.config.weapon_powers[e.tracked_weapons[w].weapon_type] <= 0}
             e1 == [e EXCEPT !.tracked_weapons =
                       [w \in still |->
                           [weapon_type |-> @[w].weapon_type,
                            position |-> IF h.weapons[w].point_ok
                                         THEN h.weapons[w].position ELSE @[w].position,
                            predicted_impact |->
                                calculate_predicted_impact(h, h.weapons[w].ip)]]]
         IN [CreateEach(e1, h, explosions) EXCEPT !.cur = 0]

\* check_weapon_impacts that makes the explosions of the impacts before it
\* updates and removes the tracked weapons
check_weapon_impacts_explode_first(e, h) ==
    IF ~e.config.enabled THEN e
    ELSE LET explosions == ExplosionsToCreate(e, h, h.order)
             still == {w \in DOMAIN e.tracked_weapons : h.weapons[w].exists}
             e1 == CreateEach(e, h, explosions)
         IN [e1 EXCEPT !.cur = 0,
                       !.tracked_weapons =
                       [w \in still |->
                           [weapon_type |-> @[w].weapon_type,
                            position |-> IF h.weapons[w].point_ok
                                         THEN h.weapons[w].position ELSE @[w].position,
                            predicted_impact |->
                                calculate_predicted_impact(h, h.weapons[w].ip)]]]

check_weapon_impacts(e, h) ==
    IF ~e.config.enabled THEN e
    ELSE LET explosions == ExplosionsToCreate(e, h, h.order)
             still == {w \in DOMAIN e.tracked_weapons : h.weapons[w].exists}
             e1 == [e EXCEPT !.tracked_weapons =
                       [w \in still |->
                           [weapon_type |-> @[w].weapon_type,
                            position |-> IF h.weapons[w].point_ok
                                         THEN h.weapons[w].position ELSE @[w].position,
                            predicted_impact |->
                                calculate_predicted_impact(h, h.weapons[w].ip)]]]
         IN [CreateEach(e1, h, explosions) EXCEPT !.cur = 0]

(***************************************************************************)
(* The cook-off scheduler.  Chances and rolls are thousandths, durations   *)
(* and delays milliseconds, power_random a percentage.  A gen_range call   *)
(* is a roll the caller supplies in h; the effects fired by one call share *)
(* the rolls of that call.                                                 *)
(***************************************************************************)
\* CookOffConfig::default
DefaultCookOffConfig ==
    [ enabled |-> TRUE,
      effects_chance |-> 1000,
      damage_threshold |-> 25,
      debris |-> [enabled |-> TRUE, explosion |-> [power |-> 1000, max_distance |-> 80],
                  count |-> [min |-> 6, max |-> 12]],
      flares |-> [enabled |-> TRUE, color |-> 2,
                  instant |-> [enabled |-> TRUE, min |-> 2, max |-> 5],
                  timing |-> [count_modifier |-> 1000, offset |-> 5, chance |-> 500]],
      all_vehicles |-> [enabled |-> TRUE, damage_threshold |-> 25,
                        explosion |-> [power |-> 40000, enabled |-> TRUE],
                        cookoff |-> [enabled |-> TRUE, count |-> 4, power |-> 10000,
                                     duration |-> 30000, random_timing |-> TRUE,
                                     power_random |-> 50],
                        smoke |-> [is_tanker |-> TRUE, size |-> 4, duration |-> 180],
                        cookoff_chance |-> 400, smoke_chance |-> 700,
                        smoke_with_cookoff |-> TRUE, explode_on_smoke_only |-> TRUE] ]

\* the units table of CookOff::new, cut to two of its entries
DefaultUnits ==
    [t \in {"Barrel", "Ammo_crate"} |->
        IF t = "Barrel"
        THEN [explosion |-> [power |-> 25000, enabled |-> TRUE],
              cookoff |-> [enabled |-> TRUE, count |-> 2, power |-> 6000, duration |-> 15000,
                           random_timing |-> TRUE, power_random |-> 50],
              smoke |-> [is_tanker |-> FALSE, size |-> 3, duration |-> 90]]
        ELSE [explosion |-> [power |-> 30000, enabled |-> TRUE],
              cookoff |-> [enabled |-> TRUE, count |-> 3, power |-> 8000, duration |-> 20000,
                           random_timing |-> TRUE, power_random |-> 50],
              smoke |-> [is_tanker |-> FALSE, size |-> 4, duration |-> 120]]]

Note(e, entry) == [e EXCEPT !.log = Append(@, entry)]

\* CookOff::create_explosion
cookoff_create_explosion(e, h, position, power) ==
    LET explosion_pos == get_ground_position_with_offset(h, position, 1)
        e1 == HostCall(e, h, [kind |-> "explosion", tag |-> "cookoff",
                              pos |-> explosion_pos, power |-> power])
    IN IF e1.err THEN e1
       ELSE Swallow(HostCall(e1, h, [kind |-> "smoke", tag |-> "cookoff_explosion_smoke",
                                     pos |-> explosion_pos, power |-> 0]))

create_smoke_effect(e, h, position, size, duration) ==
    HostCall(e, h, [kind |-> "smoke", tag |-> "cookoff_smoke",
                    pos |-> <<position[1], get_ground_height(h, position) + 20, position[3]>>,
                    power |-> size])

TimedEntry(unit_id, position, power, trigger_time, effect_type) ==
    [unit_id |-> unit_id, position |-> position, power |-> power,
     trigger_time |-> trigger_time, effect_type |-> effect_type]

RECURSIVE PushEach(_, _)
PushEach(e, entries) ==
    IF entries = <<>> THEN e
    ELSE PushEach([e EXCEPT !.timed_explosions = Append(@, Head(entries))], Tail(entries))

schedule_cookoff_flares_timed(e, h, unit_id, position, cookoff_count, cookoff_duration, start_time) ==
    LET flares == e.cookoff_config.flares
        flare_count == Mul(cookoff_count * 1000, flares.timing.count_modifier) \div 1000
    IN IF h.flare_roll > flares.timing.chance THEN e
       ELSE IF flare_count = 0 THEN e
       ELSE IF flares.instant.enabled
            THEN PushEach(e, [i \in 1..h.instant_count |->
                                 TimedEntry(unit_id, position, 0, start_time, "Flare")])
            ELSE PushEach(e, [i \in 1..flare_count |->
                                 TimedEntry(unit_id,
                                            <<position[1], get_ground_height(h, position), position[3]>>,
                                            0, start_time + Mul(h.flare_delay_roll, cookoff_duration),
                                            "Flare")])

schedule_debris_effects_timed(e, h, effect, start_time) ==
    PushEach(e, [j \in 1..h.debris_count |->
                    TimedEntry(effect.unit_id, effect.position,
                               e.cookoff_config.debris.explosion.power,
                               start_time + h.debris_delay, "Debris")])

\* the i-th timed cook-off explosion of an effect (i from 0)
\* CookoffEntry counting the explosions from one
CookoffEntry_one_based(h, effect, i, start_time) ==
    LET c == effect.cookoff
        delay == IF c.random_timing THEN Mul(h.delay_rolls[i + 1], c.duration)
                 ELSE ((i + 1) * c.duration) \div c.count
        cookoff_power == IF c.power_random = 0 THEN c.power
                         ELSE Mul(c.power, 1000 + Mul(c.power_random * 10, 2 * h.power_roll - 1000))
    IN TimedEntry(effect.unit_id, effect.position, cookoff_power, start_time + delay, "Cookoff")

\* the i-th timed explosion of a cook-off (i from 0); the delay is cut to
\* whole milliseconds after the multiplication by i
CookoffEntry(h, effect, i, start_time) ==
    LET c == effect.cookoff
        delay == IF c.random_timing THEN Mul(h.delay_rolls[i + 1], c.duration)
                 ELSE (i * c.duration) \div c.count
        cookoff_power == IF c.power_random = 0 THEN c.power
                         ELSE Mul(c.power, 1000 + Mul(c.power_random * 10, 2 * h.power_roll - 1000))
    IN TimedEntry(effect.unit_id, effect.position, cookoff_power, start_time + delay, "Cookoff")

schedule_cookoff_effects_for_effect(e, h, effect) ==
    LET e0 == Note(e, [kind |-> "enqueue", unit_id |-> effect.unit_id])
        e1 == IF e.cookoff_config.flares.enabled
              THEN schedule_cookoff_flares_timed(e0, h, effect.unit_id, effect.position,
                                                 effect.cookoff.count, effect.cookoff.duration, now)
              ELSE e0
        e2 == PushEach(e1, [k \in 1..effect.cookoff.count |-> CookoffEntry(h, effect, k - 1, now)])
    IN IF e.cookoff_config.debris.enabled
       THEN schedule_debris_effects_timed(e2, h, effect, now)
       ELSE e2

\* the first effect queued for the unit, or None
FindEffect(q, unit_id) ==
    IF \E i \in 1..Len(q) : q[i].unit_id = unit_id
    THEN q[CHOOSE i \in 1..Len(q) :
              q[i].unit_id = unit_id /\ \A j \in 1..(i - 1) : q[j].unit_id # unit_id]
    ELSE None

trigger_effects_immediately(e, h, unit_id) ==
    LET e0 == Note([e EXCEPT !.cur = unit_id], [kind |-> "trigger", unit_id |-> unit_id])
    IN IF \A i \in 1..Len(e.effect_queue) : e.effect_queue[i].unit_id # unit_id THEN e0
       ELSE LET effect == FindEffect(e.effect_queue, unit_id)
                e1 == IF effect.explosion.enabled
                      THEN cookoff_create_explosion(e0, h, effect.position, effect.explosion.power)
                      ELSE e0
                e2 == IF e1.err \/ ~effect.smoke.is_tanker THEN e1
                      ELSE create_smoke_effect(e1, h, effect.position, effect.smoke.size,
                                               effect.smoke.duration)
                e3 == IF e2.err \/ ~(effect.cookoff.enabled /\ effect.cookoff.count > 0) THEN e2
                      ELSE schedule_cookoff_effects_for_effect(e2, h, effect)
            IN IF e3.err THEN e3
               ELSE [e3 EXCEPT !.effect_queue =
                        SelectSeq(@, LAMBDA x : x.unit_id # unit_id)]

\* MovementTracker::new
NewMovementTracker(unit_id, position) ==
    [unit_id |-> unit_id, last_position |-> position, last_update |-> now,
     stationary_checks |-> 0, max_stationary_checks |-> 3, movement_threshold |-> 10]

MapPut(m, k, v) == [x \in DOMAIN m \cup {k} |-> IF x = k THEN v ELSE m[x]]

MapDrop(m, K) == [x \in DOMAIN m \ K |-> m[x]]

start_movement_tracking(e, h, unit_id) ==
    IF unit_id \in DOMAIN e.pending_effects
    THEN [e EXCEPT !.movement_tracking =
            MapPut(@, unit_id, NewMovementTracker(unit_id, e.pending_effects[unit_id].position))]
    ELSE trigger_effects_immediately(e, h, unit_id)

schedule_cookoff_effects(e, h, unit_id, from_dead_event) ==
    IF unit_id \notin DOMAIN e.pending_effects THEN e
    ELSE LET pending_effect == e.pending_effects[unit_id]
             properties == pending_effect.properties
             av == e.cookoff_config.all_vehicles
             cookoff_chance == IF pending_effect.unit_type \in DOMAIN e.units
                               THEN 1000 ELSE av.cookoff_chance
             should_cookoff == h.cookoff_roll <= cookoff_chance
             should_smoke == IF should_cookoff /\ av.smoke_with_cookoff THEN TRUE
                             ELSE h.smoke_roll <= av.smoke_chance
             scheduled_effect ==
                 [unit_id |-> unit_id, unit_type |-> pending_effect.unit_type,
                  position |-> pending_effect.position,
                  explosion |-> properties.explosion,
                  cookoff |-> [properties.cookoff EXCEPT !.enabled = should_cookoff],
                  smoke |-> [properties.smoke EXCEPT !.is_tanker = should_smoke]]
             e1 == Note([e EXCEPT !.effect_queue = Append(@, scheduled_effect)],
                        [kind |-> "scheduled", unit_id |-> unit_id])
         IN IF ~from_dead_event THEN start_movement_tracking(e1, h, unit_id)
            ELSE trigger_effects_immediately(e1, h, unit_id)

is_candidate(e, unit_type, unit_name) ==
    \/ unit_type \in DOMAIN e.units
    \/ unit_name = "CookoffTarget"
    \/ e.cookoff_config.all_vehicles.enabled

get_properties(e, unit_type) ==
    IF unit_type \in DOMAIN e.units THEN e.units[unit_type]
    ELSE [explosion |-> e.cookoff_config.all_vehicles.explosion,
          cookoff |-> e.cookoff_config.all_vehicles.cookoff,
          smoke |-> e.cookoff_config.all_vehicles.smoke]

\* the part of process_unit_hit after its checks
CreatePendingEffect(e, h, unit_id, unit_name, unit_type, position, is_dead) ==
    LET pending_effect == [unit_id |-> unit_id, unit_type |-> unit_type, position |-> position,
                           start_time |-> now, is_cookoff |-> TRUE, is_dead |-> is_dead,
                           properties |-> get_properties(e, unit_type)]
        e1 == [e EXCEPT !.pending_effects = MapPut(@, unit_id, pending_effect),
                        !.processed_units = MapPut(@, unit_id, now),
                        !.cur = unit_id]
    IN schedule_cookoff_effects(Note(e1, [kind |-> "created", unit_id |-> unit_id]),
                                h, unit_id, is_dead)

\* process_unit_hit without the look-up of the processed-unit record
process_unit_hit_unchecked(e, h, unit_id, unit_name, unit_type, position, health_percent, is_dead) ==
    IF ~e.cookoff_config.enabled THEN e
    ELSE IF ~is_candidate(e, unit_type, unit_name) THEN e
    ELSE IF /\ health_percent > (IF unit_type \in DOMAIN e.units
                                 THEN e.cookoff_config.damage_threshold
                                 ELSE e.cookoff_config.all_vehicles.damage_threshold)
            /\ ~is_dead
         THEN e
    ELSE IF h.effects_roll > e.cookoff_config.effects_chance THEN e
    ELSE CreatePendingEffect(e, h, unit_id, unit_name, unit_type, position, is_dead)

\* process_unit_hit that records the unit as processed before it looks at
\* the notification
process_unit_hit_marks_first(e, h, unit_id, unit_name, unit_type, position, health_percent, is_dead) ==
    IF ~e.cookoff_config.enabled THEN e
    ELSE IF unit_id \in DOMAIN e.processed_units THEN e
    ELSE LET e0 == [e EXCEPT !.processed_units = MapPut(@, unit_id, now)]
         IN IF ~is_candidate(e, unit_type, unit_name) THEN e0
            ELSE IF /\ health_percent > (IF unit_type \in DOMAIN e.units
                                         THEN e.cookoff_config.damage_threshold
                                         ELSE e.cookoff_config.all_vehicles.damage_threshold)
                    /\ ~is_dead
                 THEN e0
            ELSE IF h.effects_roll > e.cookoff_config.effects_chance THEN e0
            ELSE CreatePendingEffect(e0, h, unit_id, unit_name, unit_type, position, is_dead)

\* process_unit_hit that lets only health below the threshold pass
process_unit_hit_strictly_below(e, h, unit_id, unit_name, unit_type, position, health_percent, is_dead) ==
    IF ~e.cookoff_config.enabled THEN e
    ELSE IF unit_id \in DOMAIN e.processed_units THEN e
    ELSE IF ~is_candidate(e, unit_type, unit_name) THEN e
    ELSE IF /\ health_percent >= (IF unit_type \in DOMAIN e.units
                                  THEN e.cookoff_config.damage_threshold
                                  ELSE e.cookoff_config.all_vehicles.damage_threshold)
            /\ ~is_dead
         THEN e
    ELSE IF h.effects_roll > e.cookoff_config.effects_chance THEN e
    ELSE CreatePendingEffect(e, h, unit_id, unit_name, unit_type, position, is_dead)

process_unit_hit(e, h, unit_id, unit_name, unit_type, position, health_percent, is_dead) ==
    IF ~e.cookoff_config.enabled THEN e
    ELSE IF unit_id \in DOMAIN e.processed_units THEN e
    ELSE IF ~is_candidate(e, unit_type, unit_name) THEN e
    ELSE IF /\ health_percent > (IF unit_type \in DOMAIN e.units
                                 THEN e.cookoff_config.damage_threshold
                                 ELSE e.cookoff_config.all_vehicles.damage_threshold)
            /\ ~is_dead
         THEN e
    ELSE IF h.effects_roll > e.cookoff_config.effects_chance THEN e
    ELSE CreatePendingEffect(e, h, unit_id, unit_name, unit_type, position, is_dead)

(***************************************************************************)
(* The movement tracker.  h.found[u] is the host's answer to the search    *)
(* for unit u: whether it is found, and where.                             *)
(***************************************************************************)
\* whether the tracker's last sample is at least a whole second old
should_update(tracker) == (now - tracker.last_update) \div 1000 >= 1

IsStationary(tracker, current_position) ==
    distance_3d_sq(current_position, tracker.last_position)
        < tracker.movement_threshold * tracker.movement_threshold

\* the units the sampling promotes, in the order the trackers are iterated
UnitsToTrigger(e, h) ==
    SelectSeq(h.order, LAMBDA u :
        LET tracker == e.movement_tracking[u]
        IN /\ should_update(tracker)
           /\ h.found[u].found
           /\ IsStationary(tracker, h.found[u].position)
           /\ tracker.stationary_checks + 1 >= tracker.max_stationary_checks)

\* UnitsToRemove keeping a tracker until its count is past the maximum
UnitsToRemove_past_max(e, h) ==
    {u \in DOMAIN e.movement_tracking :
        LET tracker == e.movement_tracking[u]
        IN /\ should_update(tracker)
           /\ \/ ~h.found[u].found
              \/ /\ IsStationary(tracker, h.found[u].position)
                 /\ tracker.stationary_checks + 1 > tracker.max_stationary_checks}

UnitsToRemove(e, h) ==
    {u \in DOMAIN e.movement_tracking :
        LET tracker == e.movement_tracking[u]
        IN /\ should_update(tracker)
           /\ \/ ~h.found[u].found
              \/ /\ IsStationary(tracker, h.found[u].position)
                 /\ tracker.stationary_checks + 1 >= tracker.max_stationary_checks}

\* SampleTracker keeping the count of a unit that moved
SampleTracker_count_kept(tracker, answer) ==
    IF ~should_update(tracker) THEN tracker
    ELSE IF ~answer.found THEN tracker
    ELSE IF IsStationary(tracker, answer.position)
         THEN IF tracker.stationary_checks + 1 >= tracker.max_stationary_checks THEN tracker
              ELSE [tracker EXCEPT !.stationary_checks = @ + 1,
                                   !.last_position = answer.position,
                                   !.last_update = now]
    ELSE [tracker EXCEPT !.last_position = answer.position,
                         !.last_update = now]

\* one tracker after its sample
SampleTracker(tracker, answer) ==
    IF ~should_update(tracker) THEN tracker
    ELSE IF ~answer.found THEN tracker
    ELSE IF IsStationary(tracker, answer.position)
         THEN IF tracker.stationary_checks + 1 >= tracker.max_stationary_checks THEN tracker
              ELSE [tracker EXCEPT !.stationary_checks = @ + 1,
                                   !.last_position = answer.position,
                                   !.last_update = now]
    ELSE [tracker EXCEPT !.stationary_checks = 0,
                         !.last_position = answer.position,
                         !.last_update = now]

RECURSIVE TriggerEach(_, _, _)
TriggerEach(e, h, unit_ids) ==
    IF unit_ids = <<>> THEN e
    ELSE LET e1 == trigger_effects_immediately(e, h, Head(unit_ids))
         IN IF e1.err THEN e1 ELSE TriggerEach(e1, h, Tail(unit_ids))

update_movement_tracking(e, h) ==
    LET e1 == [e EXCEPT !.movement_tracking =
                  [u \in DOMAIN @ |-> SampleTracker(@[u], h.found[u])]]
        e2 == TriggerEach(e1, h, UnitsToTrigger(e, h))
    IN IF e2.err THEN e2
       ELSE [e2 EXCEPT !.movement_tracking = MapDrop(@, UnitsToRemove(e, h))]

(***************************************************************************)
(* The governor.                                                           *)
(***************************************************************************)
ModeFor(avg_duration) ==
    IF avg_duration > 25000 THEN "Critical"
    ELSE IF avg_duration > 16000 THEN "Minimal"
    ELSE IF avg_duration > 10000 THEN "Reduced"
    ELSE "Normal"

IntervalFor(mode) ==
    CASE mode = "Normal" -> 100
      [] mode = "Reduced" -> 200
      [] mode = "Minimal" -> 400
      [] mode = "Critical" -> 750

\* update_performance_monitoring choosing the mode by the last cost alone
update_performance_monitoring_last_cost(e, update_duration_us) ==
    LET pushed == Append(e.update_times, update_duration_us)
        times == IF Len(pushed) > 10 THEN Tail(pushed) ELSE pushed
        e1 == [e EXCEPT !.update_times = times]
    IN IF Len(times) >= 5
       THEN LET new_mode == ModeFor(update_duration_us)
            IN IF new_mode # e.performance_mode
               THEN [e1 EXCEPT !.performance_mode = new_mode,
                               !.adaptive_update_interval = IntervalFor(new_mode)]
               ELSE e1
       ELSE e1

update_performance_monitoring(e, update_duration_us) ==
    LET pushed == Append(e.update_times, update_duration_us)
        times == IF Len(pushed) > 10 THEN Tail(pushed) ELSE pushed
        e1 == [e EXCEPT !.update_times = times]
    IN IF Len(times) >= 5
       THEN LET new_mode == ModeFor(SeqSum(times) \div Len(times))
            IN IF new_mode # e.performance_mode
               THEN [e1 EXCEPT !.performance_mode = new_mode,
                               !.adaptive_update_interval = IntervalFor(new_mode)]
               ELSE e1
       ELSE e1

should_skip_update(e) == now - e.last_update_time < e.adaptive_update_interval

update_last_update_time(e) == [e EXCEPT !.last_update_time = now]

(***************************************************************************)
(* CookOff::update.                                                        *)
(***************************************************************************)
\* process_timed_explosions that does not look at the trigger time
RECURSIVE process_timed_explosions_undated(_, _)
process_timed_explosions_undated(e, h) ==
    IF e.timed_explosions = <<>> THEN e
    ELSE LET timed_explosion == Head(e.timed_explosions)
         IN IF FALSE THEN e
            ELSE LET e1 == Note([e EXCEPT !.timed_explosions = Tail(@),
                                          !.cur = timed_explosion.unit_id],
                                [kind |-> "fired", unit_id |-> timed_explosion.unit_id,
                                 trigger_time |-> timed_explosion.trigger_time,
                                 effect_type |-> timed_explosion.effect_type])
                     e2 == IF timed_explosion.effect_type = "Flare"
                           THEN Swallow(HostCall(e1, h, [kind |-> "flare", tag |-> "cookoff_flare",
                                                         pos |-> timed_explosion.position,
                                                         power |-> 0]))
                           ELSE IF timed_explosion.power > 0
                                THEN cookoff_create_explosion(e1, h, timed_explosion.position,
                                                              timed_explosion.power)
                                ELSE e1
                 IN IF e2.err THEN e2 ELSE process_timed_explosions_undated(e2, h)

RECURSIVE process_timed_explosions(_, _)
process_timed_explosions(e, h) ==
    IF e.timed_explosions = <<>> THEN e
    ELSE LET timed_explosion == Head(e.timed_explosions)
         IN IF now < timed_explosion.trigger_time THEN e
            ELSE LET e1 == Note([e EXCEPT !.timed_explosions = Tail(@),
                                          !.cur = timed_explosion.unit_id],
                                [kind |-> "fired", unit_id |-> timed_explosion.unit_id,
                                 trigger_time |-> timed_explosion.trigger_time,
                                 effect_type |-> timed_explosion.effect_type])
                     e2 == IF timed_explosion.effect_type = "Flare"
                           THEN Swallow(HostCall(e1, h, [kind |-> "flare", tag |-> "cookoff_flare",
                                                         pos |-> timed_explosion.position,
                                                         power |-> 0]))
                           ELSE IF timed_explosion.power > 0
                                THEN cookoff_create_explosion(e1, h, timed_explosion.position,
                                                              timed_explosion.power)
                                ELSE e1
                 IN IF e2.err THEN e2 ELSE process_timed_explosions(e2, h)

\* the pending effects update() finds ready, and drops
ReadyEffects(e) ==
    {u \in DOMAIN e.pending_effects :
        LET time_since_start == now - e.pending_effects[u].start_time
        IN /\ time_since_start >= 2000
           /\ (e.pending_effects[u].is_dead \/ time_since_start >= 3000)}

\* the loop of update() that pops and fires every queued effect
RECURSIVE DrainEffectQueue(_, _)
DrainEffectQueue(e, h) ==
    IF e.effect_queue = <<>> THEN e
    ELSE LET effect == Head(e.effect_queue)
             e0 == Note([e EXCEPT !.effect_queue = Tail(@), !.cur = effect.unit_id],
                        [kind |-> "drain", unit_id |-> effect.unit_id])
             e1 == IF effect.explosion.enabled
                   THEN cookoff_create_explosion(e0, h, effect.position, effect.explosion.power)
                   ELSE e0
             e2 == IF e1.err \/ ~effect.smoke.is_tanker THEN e1
                   ELSE create_smoke_effect(e1, h, effect.position, effect.smoke.size,
                                            effect.smoke.duration)
             e3 == IF e2.err \/ ~effect.smoke.is_tanker THEN e2
                   ELSE [e2 EXCEPT !.processed_smoke = @ \cup {effect.unit_id}]
             e4 == IF e3.err \/ ~effect.cookoff.enabled THEN e3
                   ELSE schedule_cookoff_effects_for_effect(e3, h, effect)
         IN IF e4.err THEN e4 ELSE DrainEffectQueue(e4, h)

\* processed_smoke beyond 100 entries is cut to the 50 smallest unit ids
TrimProcessedSmoke(s) ==
    IF Cardinality(s) > 100
    THEN {u \in s : Cardinality({v \in s : v < u}) < 50}
    ELSE s

\* update() that returns early, when it finds nothing pending and nothing
\* queued, before it looks at the timed explosions
\* ProcessReadyEffects that schedules a ready effect before it removes it
RECURSIVE ProcessReadyEffects_schedule_first(_, _, _)
ProcessReadyEffects_schedule_first(e, h, ready) ==
    IF ready = {} THEN e
    ELSE LET unit_id == CHOOSE u \in ready : \A v \in ready : u <= v
             pending_effect == e.pending_effects[unit_id]
             e1 == schedule_cookoff_effects(e, h, unit_id, pending_effect.is_dead)
         IN IF e1.err THEN e1
            ELSE ProcessReadyEffects_schedule_first(
                     [e1 EXCEPT !.pending_effects = MapDrop(@, {unit_id})], h,
                     ready \ {unit_id})

\* the ready effects of update, one after the other: each is removed from
\* pending_effects and then schedule_cookoff_effects is called for its unit
RECURSIVE ProcessReadyEffects(_, _, _)
ProcessReadyEffects(e, h, ready) ==
    IF ready = {} THEN e
    ELSE LET unit_id == CHOOSE u \in ready : \A v \in ready : u <= v
             pending_effect == e.pending_effects[unit_id]
             e1 == schedule_cookoff_effects(
                       [e EXCEPT !.pending_effects = MapDrop(@, {unit_id})], h,
                       unit_id, pending_effect.is_dead)
         IN IF e1.err THEN e1 ELSE ProcessReadyEffects(e1, h, ready \ {unit_id})

ExecuteUpdate_idle_return(e, h) ==
    LET e1 == [e EXCEPT !.processed_units =
                   MapDrop(@, {u \in DOMAIN @ : ~(@[u] > now - 300000)}),
                        !.processed_smoke = TrimProcessedSmoke(@)]
        Drain(ready) == IF ready.err THEN ready ELSE DrainEffectQueue(ready, h)
        Timed(e2) == IF e2.err \/ (e.effect_queue = <<>> /\ DOMAIN e.pending_effects = {})
                     THEN e2 ELSE process_timed_explosions(e2, h)
        Finish(e3) ==
            IF e3.err THEN e3
            ELSE update_last_update_time(update_performance_monitoring(e3, h.duration_us))
    IN CHOOSE r \in {Finish(e3) : e3 \in {Timed(e2) : e2 \in
                         {Drain(x) : x \in {ProcessReadyEffects(e1, h, ReadyEffects(e))}}}} :
          TRUE

\* update() once the governor lets it run: the ready pending effects, the
\* queue, the timed explosions and the governor's bookkeeping, each step
\* taken from the engine the step before it left
ExecuteUpdate(e, h) ==
    LET e1 == [e EXCEPT !.processed_units =
                   MapDrop(@, {u \in DOMAIN @ : ~(@[u] > now - 300000)}),
                        !.processed_smoke = TrimProcessedSmoke(@)]
        Drain(ready) == IF ready.err THEN ready ELSE DrainEffectQueue(ready, h)
        Timed(e2) == IF e2.err THEN e2 ELSE process_timed_explosions(e2, h)
        Finish(e3) ==
            IF e3.err THEN e3
            ELSE update_last_update_time(update_performance_monitoring(e3, h.duration_us))
    IN CHOOSE r \in {Finish(e3) : e3 \in {Timed(e2) : e2 \in
                         {Drain(x) : x \in {ProcessReadyEffects(e1, h, ReadyEffects(e))}}}} :
          TRUE

\* update() without the governor's check
update_unthrottled(e, h) ==
    IF ~e.cookoff_config.enabled THEN e
    ELSE ExecuteUpdate(e, h)

update(e, h) ==
    IF ~e.cookoff_config.enabled THEN e
    ELSE IF should_skip_update(e) THEN e
    ELSE ExecuteUpdate(e, h)

(***************************************************************************)
(* The entry points of SplashDamage for unit damage and for the tick.      *)
(* The periodic jobs of the tick run in the seconds that are multiples of  *)
(* 300, 600 and 900; the clock of the model starts on such a second.       *)
(***************************************************************************)
handle_unit_hit(e, h, unit_id, unit_name, unit_type, position, health_percent, is_dead) ==
    IF ~e.config.enabled THEN e
    ELSE process_unit_hit(e, h, unit_id, unit_name, unit_type, position, health_percent, is_dead)

\* update_from_main_config that switches the cook-off scheduler both ways
update_from_main_config_both_ways(e, enabled) ==
    [e EXCEPT !.config.enabled = enabled, !.cookoff_config.enabled = enabled]

\* disabling the engine also disables the cook-off scheduler
update_from_main_config(e, enabled) ==
    IF enabled THEN [e EXCEPT !.config.enabled = TRUE]
    ELSE [e EXCEPT !.config.enabled = FALSE, !.cookoff_config.enabled = FALSE]

initialize_mission_units(e) ==
    [e EXCEPT !.units = MapPut(@, "M35",
        [explosion |-> [power |-> 45000, enabled |-> TRUE],
         cookoff |-> [enabled |-> TRUE, count |-> 3, power |-> 10000, duration |-> 25000,
                      random_timing |-> TRUE, power_random |-> 35],
         smoke |-> [is_tanker |-> FALSE, size |-> 3, duration |-> 90]])]

\* mission_difficulty is in thousandths
apply_mission_settings(e, mission_difficulty) ==
    [e EXCEPT !.cookoff_config.effects_chance = Min2(Mul(@, mission_difficulty), 1000),
              !.cookoff_config.damage_threshold = Max2(Mul(@, 2000 - mission_difficulty), 10)]

\* the unit types cleanup_unused_units keeps after dropping M818 and M35
KeptUnitTypes == {"Ural-4320T", "M978 HEMTT Tanker", "Ammo_crate", "Barrel"}

cleanup_unused_units(e) ==
    [e EXCEPT !.units = MapDrop(@, {t \in DOMAIN @ : t \notin KeptUnitTypes})]

\* the jobs of cleanup() that follow the movement tracking
PeriodicJobs(e) ==
    LET timestamp == now \div 1000
        e1 == IF timestamp % 300 = 0 THEN initialize_mission_units(e) ELSE e
        e2 == IF timestamp % 600 = 0 THEN apply_mission_settings(e1, 1000) ELSE e1
    IN IF timestamp % 900 = 0 THEN cleanup_unused_units(e2) ELSE e2

\* cleanup() in its three stages, each given what the host answers to it:
\* the impact check, the cook-off update, and the movement tracking with the
\* periodic jobs.  An Err of a stage ends the tick.
CleanupImpacts(e, h) ==
    IF ~e.config.enabled THEN e ELSE check_weapon_impacts(e, h)

CleanupUpdate(e, h) ==
    IF ~e.config.enabled \/ e.err THEN e ELSE update(e, h)

CleanupTracking(e, h) ==
    IF ~e.config.enabled \/ e.err THEN e
    ELSE LET e3 == update_movement_tracking(e, h)
         IN IF e3.err THEN e3 ELSE PeriodicJobs(e3)

(***************************************************************************)
(* The state after SplashDamage::default(), whose cook-off scheduler is    *)
(* CookOff::new(config).                                                   *)
(***************************************************************************)
EmptyMap == [x \in {} |-> 0]

InitWith(cookoff) ==
    /\ now = 0
    /\ config = DefaultSplashConfig
    /\ tracked_weapons = EmptyMap
    /\ recent_explosions = <<>>
    /\ cookoff_config = cookoff
    /\ units = DefaultUnits
    /\ pending_effects = EmptyMap
    /\ processed_units = EmptyMap
    /\ processed_smoke = {}
    /\ effect_queue = <<>>
    /\ timed_explosions = <<>>
    /\ movement_tracking = EmptyMap
    /\ update_times = <<>>
    /\ last_update_time = 0
    /\ adaptive_update_interval = 100
    /\ performance_mode = "Normal"
    /\ nextWeaponId = 1
    /\ op = [name |-> "new"]
    /\ out = <<>>
    /\ log = <<>>
    /\ hist = [created |-> [u \in UnitIds |-> <<>>],
               dead |-> [u \in UnitIds |-> FALSE],
               still |-> [u \in UnitIds |-> 0],
               predicted |-> [w \in WeaponIds |-> None],
               max_fired |-> -1]

Init == InitWith(DefaultCookOffConfig)

(***************************************************************************)
(* Actions.  Each applies one handler, given the host's answers, and       *)
(* records the call in op; out and log hold what that call did.  hist      *)
(* keeps, per unit, the times its pending effects were created, whether    *)
(* the last was a death, and how many stationary samples in a row the      *)
(* host has answered since; and the trigger time of the last timed         *)
(* explosion fired by an earlier call.                                     *)
(***************************************************************************)
\* time passes between two calls of the host
Advance(d, max) ==
    /\ now + d <= max
    /\ now' = now + d
    /\ UNCHANGED <<engineVars, nextWeaponId, op, out, log, hist>>

\* the unit ids of the log entries of a kind
Logged(l, kind) == {l[i].unit_id : i \in {j \in 1..Len(l) : l[j].kind = kind}}

\* the trigger times of the timed explosions a call fired, in order
FiredTimes(l) ==
    LET idx == SelectSeq([i \in 1..Len(l) |-> i], LAMBDA i : l[i].kind = "fired")
    IN [k \in 1..Len(idx) |-> l[idx[k]].trigger_time]

RECURSIVE SeqMax(_, _)
SeqMax(s, m) == IF s = <<>> THEN m ELSE SeqMax(Tail(s), Max2(Head(s), m))

\* the host reports a shot; a weapon that gets tracked takes the next id
\* a shot event for the weapon weapon_id; answers tells which of the host's
\* queries succeed and whether a player fired
HandleWeaponShotWith(weapon_id, weapon_type, position, is_exist, answers) ==
    /\ weapon_id \in WeaponIds
    /\ \E e \in {handle_weapon_shot(Engine, [is_exist |-> is_exist,
                                              position |-> position] @@ answers,
                                     weapon_id, weapon_type)} :
          /\ Install(e)
          /\ nextWeaponId' = IF /\ weapon_id = nextWeaponId
                                 /\ weapon_id \in DOMAIN e.tracked_weapons
                              THEN nextWeaponId + 1 ELSE nextWeaponId
          /\ op' = [name |-> "handle_weapon_shot", weapon_id |-> weapon_id,
                    weapon_type |-> weapon_type, position |-> position,
                    is_exist |-> is_exist, answers |-> answers,
                    result |-> IF e.err THEN "Err" ELSE "Ok"]
    /\ UNCHANGED <<now, hist>>

\* the shot event of a new weapon, fired by no player, in a host that
\* answers every query
HandleWeaponShot(weapon_type, position, is_exist) ==
    HandleWeaponShotWith(nextWeaponId, weapon_type, position, is_exist,
                         [is_exist_ok |-> TRUE, point_ok |-> TRUE, is_player |-> FALSE])

\* the answers the host can give about a tracked weapon
WeaponAnswers(positions, ips) ==
    {[exists |-> FALSE, point_ok |-> FALSE, position |-> None, ip |-> None]}
    \cup [exists : {TRUE}, point_ok : {TRUE}, position : positions, ip : ips \cup {None}]
    \cup {[exists |-> TRUE, point_ok |-> FALSE, position |-> None, ip |-> None]}

\* the tracked weapons the host reports gone, with their configured power
Gone(weapons) ==
    {[w |-> w, weapon_type |-> tracked_weapons[w].weapon_type,
      power |-> config.weapon_powers[tracked_weapons[w].weapon_type]] :
        w \in {x \in DOMAIN tracked_weapons : ~weapons[x].exists}}

\* the tracker is iterated in any order; only the order of the impacts shows
CheckWeaponImpacts(positions, ips, scans, world) ==
    /\ \E weapons \in [DOMAIN tracked_weapons -> WeaponAnswers(positions, ips)],
          fail \in 0..MaxFailAt,
          scan_ok \in scans :
          \E order \in Perms({w \in DOMAIN tracked_weapons : ~weapons[w].exists}) :
          \E e \in {check_weapon_impacts(Engine, [weapons |-> weapons, order |-> order,
                                                   fail |-> fail, scan_ok |-> scan_ok,
                                                   units |-> world])} :
             /\ fail <= e.calls
             /\ Install(e)
             /\ op' = [name |-> "check_weapon_impacts", gone |-> Gone(weapons), fail |-> fail,
                       impacts |-> IF config.enabled
                                   THEN ExplosionsToCreate(Engine, [weapons |-> weapons], order)
                                   ELSE <<>>]
             /\ hist' = [hist EXCEPT !.predicted =
                            [w \in WeaponIds |->
                                IF /\ w \in DOMAIN e.tracked_weapons
                                   /\ e.tracked_weapons[w].predicted_impact # None
                                THEN e.tracked_weapons[w].predicted_impact ELSE @[w]]]
    /\ UNCHANGED <<now, nextWeaponId>>

\* the rolls a call may draw: counts within the configured ranges
ValidRolls(r) ==
    /\ r.instant_count \in cookoff_config.flares.instant.min..cookoff_config.flares.instant.max
    /\ r.debris_count \in cookoff_config.debris.count.min..cookoff_config.debris.count.max

\* the host reports damage to a unit; the host call of the number drawn
\* from fails fails (0: none)
ProcessUnitHitFailing(unit_id, unit_type, position, health_percent, is_dead, rolls, fails) ==
    /\ \E r \in rolls, fail \in fails :
          \E e \in {process_unit_hit(Engine, [fail |-> fail] @@ r, unit_id, "unit", unit_type,
                               position, health_percent, is_dead)} :
             /\ ValidRolls(r)
             /\ fail <= e.calls
             /\ Install([e EXCEPT !.cur = 0])
             /\ op' = [name |-> "process_unit_hit", unit_id |-> unit_id, is_dead |-> is_dead,
                       health_percent |-> health_percent, fail |-> fail,
                       unit_type |-> unit_type, effects_roll |-> r.effects_roll,
                       fresh |-> unit_id \notin DOMAIN processed_units]
             /\ hist' = IF unit_id \in Logged(e.log, "created")
                        THEN [hist EXCEPT !.created[unit_id] = Append(@, now),
                                          !.dead[unit_id] = is_dead,
                                          !.still[unit_id] = 0]
                        ELSE hist
    /\ UNCHANGED <<now, nextWeaponId>>

ProcessUnitHit(unit_id, unit_type, position, health_percent, is_dead, rolls) ==
    ProcessUnitHitFailing(unit_id, unit_type, position, health_percent, is_dead, rolls,
                          0..MaxFailAt)

\* the host runs the cook-off update; the update takes duration_us
Update(rolls, durations) ==
    /\ \E r \in rolls, fail \in 0..MaxFailAt, duration_us \in durations :
          \E e \in {update(Engine, [fail |-> fail, duration_us |-> duration_us] @@ r)} :
             /\ ValidRolls(r)
             /\ fail <= e.calls
             /\ Install([e EXCEPT !.cur = 0])
             /\ op' = [name |-> "update", fail |-> fail,
                       ready |-> ReadyEffects(Engine),
                       elapsed |-> now - last_update_time,
                       interval |-> adaptive_update_interval,
                       max_fired |-> hist.max_fired]
             /\ hist' = [hist EXCEPT !.max_fired = SeqMax(FiredTimes(e.log), @)]
    /\ UNCHANGED <<now, nextWeaponId>>

\* the answers the host can give to the search for a tracked unit
UnitAnswers(positions) ==
    {[found |-> FALSE, position |-> None]} \cup [found : {TRUE}, position : positions]

\* the trackers whose last sample is a whole second old, with the answers
Sampled(found) ==
    {[unit_id |-> u, found |-> found[u].found, position |-> found[u].position,
      last_position |-> movement_tracking[u].last_position,
      stationary_checks |-> movement_tracking[u].stationary_checks] :
        u \in {x \in DOMAIN movement_tracking :
                  (now - movement_tracking[x].last_update) \div 1000 >= 1}}

\* the host runs the movement tracking
UpdateMovementTracking(positions, rolls) ==
    /\ \E found \in [DOMAIN movement_tracking -> UnitAnswers(positions)],
          order \in Perms(DOMAIN movement_tracking),
          r \in rolls, fail \in 0..MaxFailAt :
          \E e \in {update_movement_tracking(Engine,
                      [fail |-> fail, found |-> found, order |-> order] @@ r)} :
             /\ ValidRolls(r)
             /\ fail <= e.calls
             /\ Install([e EXCEPT !.cur = 0])
             /\ op' = [name |-> "update_movement_tracking", fail |-> fail,
                       sampled |-> Sampled(found)]
             /\ hist' = [hist EXCEPT !.still =
                           [u \in UnitIds |->
                               IF \E x \in Sampled(found) : x.unit_id = u
                               THEN LET x == CHOOSE y \in Sampled(found) : y.unit_id = u
                                    IN IF x.found /\ distance_3d_sq(x.position, x.last_position) < 100
                                       THEN Min2(@[u] + 1, 4) ELSE 0
                               ELSE @[u]]]
    /\ UNCHANGED <<now, nextWeaponId>>

\* the host reports damage to a unit through SplashDamage
HandleUnitHit(unit_id, unit_type, position, health_percent, is_dead, rolls) ==
    /\ \E r \in rolls, fail \in 0..MaxFailAt :
          \E e \in {handle_unit_hit(Engine, [fail |-> fail] @@ r, unit_id, "unit", unit_type,
                                  position, health_percent, is_dead)} :
             /\ ValidRolls(r)
             /\ fail <= e.calls
             /\ Install([e EXCEPT !.cur = 0])
             /\ op' = [name |-> "handle_unit_hit", unit_id |-> unit_id, is_dead |-> is_dead,
                       health_percent |-> health_percent, fail |-> fail]
             /\ hist' = IF unit_id \in Logged(e.log, "created")
                        THEN [hist EXCEPT !.created[unit_id] = Append(@, now),
                                          !.dead[unit_id] = is_dead,
                                          !.still[unit_id] = 0]
                        ELSE hist
    /\ UNCHANGED <<now, nextWeaponId>>

\* the host runs the tick
Cleanup(positions, ips, world, unit_positions, rolls, durations) ==
    /\ \E weapons \in [DOMAIN tracked_weapons -> WeaponAnswers(positions, ips)],
          fail \in 0..MaxFailAt, r \in rolls, duration_us \in durations :
          \E order \in Perms({w \in DOMAIN tracked_weapons : ~weapons[w].exists}) :
          \E e1 \in {CleanupImpacts(Engine, [weapons |-> weapons, order |-> order,
                                              fail |-> fail, scan_ok |-> TRUE,
                                              units |-> world])} :
          \E e2 \in {CleanupUpdate(e1, [fail |-> fail, duration_us |-> duration_us] @@ r)} :
          \E found \in [DOMAIN e2.movement_tracking -> UnitAnswers(unit_positions)],
             torder \in Perms(DOMAIN e2.movement_tracking) :
                \E e \in {CleanupTracking(e2, [fail |-> fail, found |-> found,
                                                order |-> torder] @@ r)} :
                   /\ ValidRolls(r)
                   /\ fail <= e.calls
                   /\ Install([e EXCEPT !.cur = 0])
                   /\ op' = [name |-> "cleanup", fail |-> fail, gone |-> Gone(weapons),
                             elapsed |-> now - last_update_time,
                             interval |-> adaptive_update_interval]
                   /\ hist' = [hist EXCEPT !.max_fired = SeqMax(FiredTimes(e.log), @)]
    /\ UNCHANGED <<now, nextWeaponId>>

\* the server applies the main configuration
UpdateFromMainConfig(enabled) ==
    /\ \E e \in {update_from_main_config(Engine, enabled)} : Install(e)
    /\ op' = [name |-> "update_from_main_config", enabled |-> enabled]
    /\ UNCHANGED <<now, nextWeaponId, hist>>

\* a caller asks for a wave explosion directly; the model stops asking once
\* MaxRecent explosions are on record
CreateWaveExplosion(center, power, weapon_type, world) ==
    /\ Len(recent_explosions) < MaxRecent
    /\ \E fail \in 0..MaxFailAt :
          \E e \in {create_wave_explosion(Engine, [fail |-> fail, scan_ok |-> TRUE,
                                                   units |-> world],
                                          center, power, weapon_type)} :
             /\ fail <= e.calls
             /\ Install(e)
             /\ op' = [name |-> "create_wave_explosion", weapon_type |-> weapon_type,
                       fail |-> fail, center |-> center, power |-> power]
    /\ UNCHANGED <<now, nextWeaponId, hist>>

\* a cluster munition of the given power opens over a point
HandleClusterBombEffects(position, power, weapon_name) ==
    /\ \E fail \in 0..MaxFailAt :
          \E e \in {handle_cluster_bomb_effects(Engine, [fail |-> fail], position, power,
                                                weapon_name)} :
             /\ fail <= e.calls
             /\ Install([e EXCEPT !.cur = 0])
             /\ op' = [name |-> "handle_cluster_bomb_effects", position |-> position,
                       power |-> power, weapon_name |-> weapon_name, fail |-> fail,
                       bomblet_count |-> calculate_bomblet_count(Engine, power)]
    /\ UNCHANGED <<now, nextWeaponId, hist>>

\* the blast damage at a distance (squared, in decimetres) from an explosion
CalculateBlastDamage(distance_sq, explosion_power) ==
    /\ op' = [name |-> "calculate_blast_damage", distance_sq |-> distance_sq,
              explosion_power |-> explosion_power,
              damage |-> calculate_blast_damage(distance_sq, explosion_power)]
    /\ Install(Engine)
    /\ UNCHANGED <<now, nextWeaponId, hist>>

\* the blast wave weighs one scanned unit
ProcessUnitForCascade(unit_data, explosion_power) ==
    /\ \E fail \in 0..MaxFailAt :
          \E e \in {process_unit_for_cascade(Engine, [fail |-> fail], unit_data,
                                             explosion_power)} :
             /\ fail <= e.calls
             /\ Install(e)
             /\ op' = [name |-> "process_unit_for_cascade", unit_data |-> unit_data,
                       explosion_power |-> explosion_power, fail |-> fail]
    /\ UNCHANGED <<now, nextWeaponId, hist>>

\* the cook-off of a scheduled effect is put on the timer
ScheduleCookoffEffectsForEffect(effect, rolls) ==
    /\ \E r \in rolls :
          \E e \in {schedule_cookoff_effects_for_effect(Engine, [fail |-> 0] @@ r, effect)} :
             /\ ValidRolls(r)
             /\ Install([e EXCEPT !.cur = 0])
             /\ op' = [name |-> "schedule_cookoff_effects_for_effect", effect |-> effect,
                       rolls |-> r, queued |-> Len(timed_explosions)]
    /\ UNCHANGED <<now, nextWeaponId, hist>>

\* the verdict of the filter on a point, with the destruction check switched
\* on and off; the filter takes the engine by shared reference
CheckOrdnanceProtection(position) ==
    /\ op' = [name |-> "check_ordnance_protection", position |-> position,
              verdict |-> [d \in BOOLEAN |->
                  check_ordnance_protection(
                      [Engine EXCEPT !.config.ordnance_protection.detect_ordnance_destruction = d],
                      [fail |-> 0], position)]]
    /\ Install(Engine)
    /\ UNCHANGED <<now, nextWeaponId, hist>>

(***************************************************************************)
(* The weapon side alone: shots, impact checks and the passing of time.    *)
(***************************************************************************)
ShotPositions == {<<0, 100, 0>>}

FlightPositions == {<<600, 100, 0>>}

ImpactPoints == {<<0, 0, 0>>}

ShotNames == {"Mk_82", "3xM8_ROCKETS_IN_TUBES", "CBU_99", UnconfiguredWeapon}

TicksW == {5000}

\* a vehicle stands five metres from the first impact point
WorldW == [u \in {1} |-> [position |-> <<50, 0, 0>>, unit_type |-> "Barrel"]]

NextW ==
    \/ \E n \in ShotNames, p \in ShotPositions, x \in BOOLEAN : HandleWeaponShot(n, p, x)
    \/ CheckWeaponImpacts(FlightPositions, ImpactPoints, {TRUE}, WorldW)
    \/ \E d \in TicksW : Advance(d, MaxTime)

SpecW == Init /\ [][NextW]_vars

(***************************************************************************)
(* The weapon side in a host whose queries can fail: is_exist and          *)
(* object_id of the weapon of a shot event, and get_point.                 *)
(***************************************************************************)
QueryAnswers == [is_exist_ok : BOOLEAN, point_ok : BOOLEAN, is_player : {FALSE}]

NextQ ==
    \/ \E n \in {"Mk_82", UnconfiguredWeapon}, p \in ShotPositions, x \in BOOLEAN,
          a \in QueryAnswers : HandleWeaponShotWith(nextWeaponId, n, p, x, a)
    \/ CheckWeaponImpacts(FlightPositions, ImpactPoints, {TRUE}, WorldW)
    \/ \E d \in TicksW : Advance(d, MaxTime)

SpecQ == Init /\ [][NextQ]_vars

(***************************************************************************)
(* The tracking of shots under SplashConfig values that differ from the    *)
(* default in only_players_weapons, with the engine switched off and on,   *)
(* and shot events of players and of others, for weapons tracked already   *)
(* or not.                                                                 *)
(***************************************************************************)
TrackConfigs ==
    {[DefaultSplashConfig EXCEPT !.only_players_weapons = o] : o \in BOOLEAN}

InitOf(configs) ==
    /\ now = 0
    /\ config \in configs
    /\ tracked_weapons = EmptyMap
    /\ recent_explosions = <<>>
    /\ cookoff_config = DefaultCookOffConfig
    /\ units = DefaultUnits
    /\ pending_effects = EmptyMap
    /\ processed_units = EmptyMap
    /\ processed_smoke = {}
    /\ effect_queue = <<>>
    /\ timed_explosions = <<>>
    /\ movement_tracking = EmptyMap
    /\ update_times = <<>>
    /\ last_update_time = 0
    /\ adaptive_update_interval = 100
    /\ performance_mode = "Normal"
    /\ nextWeaponId = 1
    /\ op = [name |-> "new"]
    /\ out = <<>>
    /\ log = <<>>
    /\ hist = [created |-> [u \in UnitIds |-> <<>>],
               dead |-> [u \in UnitIds |-> FALSE],
               still |-> [u \in UnitIds |-> 0],
               predicted |-> [w \in WeaponIds |-> None],
               max_fired |-> -1]

ShotAnswers == [is_exist_ok : BOOLEAN, point_ok : {TRUE}, is_player : BOOLEAN]

\* the impacts are checked until MaxRecentT explosions are on record
MaxRecentT == 1

NextT ==
    \/ \E x \in BOOLEAN : UpdateFromMainConfig(x)
    \/ \E w \in WeaponIds, n \in {"Mk_82", UnconfiguredWeapon},
          p \in ShotPositions \cup FlightPositions, x \in BOOLEAN, a \in ShotAnswers :
          HandleWeaponShotWith(w, n, p, x, a)
    \/ /\ Len(recent_explosions) < MaxRecentT
       /\ CheckWeaponImpacts({}, {}, {TRUE}, WorldW)

SpecT == InitOf(TrackConfigs) /\ [][NextT]_vars

(***************************************************************************)
(* The power of the primary explosion as a function of the configuration:  *)
(* the weapon side under SplashConfig values that differ from the default  *)
(* in overall_scaling, in the shaped-charge switch and in the table power  *)
(* of the HEAT missile.                                                    *)
(***************************************************************************)
PowerConfigs ==
    {[DefaultSplashConfig EXCEPT !.overall_scaling = o,
                                 !.shaped_charge.enabled = s,
                                 !.weapon_powers["AGM_65D"] = p] :
        o \in {1000, 1500}, s \in BOOLEAN, p \in {38000, 80000}}

InitP ==
    /\ now = 0
    /\ config \in PowerConfigs
    /\ tracked_weapons = EmptyMap
    /\ recent_explosions = <<>>
    /\ cookoff_config = DefaultCookOffConfig
    /\ units = DefaultUnits
    /\ pending_effects = EmptyMap
    /\ processed_units = EmptyMap
    /\ processed_smoke = {}
    /\ effect_queue = <<>>
    /\ timed_explosions = <<>>
    /\ movement_tracking = EmptyMap
    /\ update_times = <<>>
    /\ last_update_time = 0
    /\ adaptive_update_interval = 100
    /\ performance_mode = "Normal"
    /\ nextWeaponId = 1
    /\ op = [name |-> "new"]
    /\ out = <<>>
    /\ log = <<>>
    /\ hist = [created |-> [u \in UnitIds |-> <<>>],
               dead |-> [u \in UnitIds |-> FALSE],
               still |-> [u \in UnitIds |-> 0],
               predicted |-> [w \in WeaponIds |-> None],
               max_fired |-> -1]

ShotNamesP == {"Mk_82", "3xM8_ROCKETS_IN_TUBES", "AGM_65D"}

NextP ==
    \/ \E n \in ShotNamesP : HandleWeaponShot(n, <<0, 100, 0>>, TRUE)
    \/ CheckWeaponImpacts({}, {}, {TRUE}, WorldW)
    \/ Advance(5000, MaxTimeP)

SpecP == InitP /\ [][NextP]_vars

(***************************************************************************)
(* handle_cluster_bomb_effects as a function of the power and of the       *)
(* weapon: powers that give one to four bomblets, a weapon whose           *)
(* submunition is in the table (CBU_99, Mk 118) and one whose submunition  *)
(* is not (CBU_97, Generic).                                               *)
(***************************************************************************)
NextA ==
    \E c \in {<<0, 0, 0>>, <<0, 100, 0>>, <<3000, 50, 0>>, <<20000, 0, -70>>},
       p \in {5000, 20000, 40000, 60000, 80000},
       n \in {"CBU_99", "CBU_97"} : HandleClusterBombEffects(c, p, n)

SpecA == Init /\ [][NextA]_vars

(***************************************************************************)
(* calculate_blast_damage as a function of the distance and of the power:  *)
(* distances from 0 to 1.1 m in decimetres and a few beyond, powers from   *)
(* 0 to 500.                                                               *)
(***************************************************************************)
BlastDistances == (0..11) \cup {20, 100, 447}

DamagePowers == {0, 1, 1000, 4000, 25000, 38000, 100000, 250000, 500000}

NextB ==
    \E d \in BlastDistances, p \in DamagePowers : CalculateBlastDamage(d * d, p)

SpecB == Init /\ [][NextB]_vars

(***************************************************************************)
(* The wave cascade as a function of the configuration: wave explosions    *)
(* under SplashConfig values that differ from the default in               *)
(* always_cascade_explode, in the wave scaling and in                      *)
(* cascade_explode_threshold.                                              *)
(***************************************************************************)
WaveConfigs ==
    {[DefaultSplashConfig EXCEPT !.wave_explosions.always_cascade_explode = a,
                                 !.wave_explosions.scaling = k,
                                 !.cascade_explode_threshold = t] :
        a \in BOOLEAN, k \in {1000, 2000}, t \in {80, 99, 100}}

WaveCenters == {<<0, 0, 0>>, <<3000, 50, 0>>, <<20000, 0, 0>>}

NextV ==
    \/ \E c \in WaveCenters, n \in {"Mk_82", "3xM8_ROCKETS_IN_TUBES"} :
          CreateWaveExplosion(c, 100000, n, WorldW)
    \/ Advance(5000, MaxTimeP)

SpecV == InitOf(WaveConfigs) /\ [][NextV]_vars

(***************************************************************************)
(* The cascade decision as a function of the blast and of the scanned      *)
(* unit: distances of 10 m, 44.7 m and 50 m (squared, in decimetres), and  *)
(* health on either side of the 80 % threshold.                            *)
(***************************************************************************)
ScannedUnits ==
    [position : {<<50, 30, 0>>}, distance_sq : {10000, 200000, 250000},
     health : {79, 80, 81, 100}, max_health : {100},
     unit_type : {"Barrel"}, is_ground_unit : {TRUE}]
    \cup [position : {<<50, 30, 0>>}, distance_sq : {10000, 200000},
          health : {161, 1}, max_health : {200, 1},
          unit_type : {"Barrel"}, is_ground_unit : {TRUE}]

BlastPowers == {100000, 150000}

NextK ==
    \/ \E u \in ScannedUnits, p \in BlastPowers : ProcessUnitForCascade(u, p)
    \/ Advance(5000, MaxTimeP)

SpecK == Init /\ [][NextK]_vars

(***************************************************************************)
(* The filter asked about points near and far, low and high, while         *)
(* weapons fly and explosions are on record.                               *)
(***************************************************************************)
FilterPoints == {<<0, 1, 0>>, <<600, 100, 0>>, <<5000, 0, 0>>, <<5000, 900, 0>>}

NextO ==
    \/ \E x \in BOOLEAN : HandleWeaponShot("Mk_82", <<0, 100, 0>>, x)
    \/ CheckWeaponImpacts(FlightPositions, ImpactPoints, {TRUE}, WorldW)
    \/ \E p \in FilterPoints : CheckOrdnanceProtection(p)
    \/ \E d \in TicksW : Advance(d, MaxTime)

SpecO == Init /\ [][NextO]_vars

(***************************************************************************)
(* Properties of the weapon side.                                          *)
(***************************************************************************)
\* the primary explosion requests the last operation made for weapon w
PrimaryRequests(w) ==
    {i \in 1..Len(out) : out[i].kind = "explosion" /\ out[i].src = w
                          /\ out[i].tag \in WeaponNames}

\* the attempts of the last operation
Attempts == {i \in 1..Len(log) : log[i].kind = "attempt"}

\* the filter's rule, stated on what the engine held at an attempt
FilterAccepts(a) ==
    \/ ~config.ordnance_protection.enabled
    \/ /\ \A i \in 1..Len(a.recent) :
              distance_3d_sq(a.recent[i].position, a.pos) > 200 * 200
       /\ \A p \in a.tracked : distance_3d_sq(p, a.pos) > 200 * 200
       /\ \A i \in 1..Len(a.recent) :
              ~ /\ a.at - a.recent[i].time <= 4000
                /\ distance_3d_sq(a.recent[i].position, a.pos) <= 1000 * 1000
                /\ a.recent[i].radius > 500

\* C1 as stated: the tick in which the host first reports a tracked weapon
\* of positive power gone makes exactly one primary explosion request for it.
C1_ExactlyOnePrimary ==
    op.name = "check_weapon_impacts" =>
        \A g \in op.gone : g.power > 0 => Cardinality(PrimaryRequests(g.w)) = 1

\* C1 amended: that tick makes at most one primary explosion request for the
\* weapon, and makes one exactly when the ordnance-protection filter accepts
\* the impact point at the moment the explosion is attempted.
C1_OnePrimaryIffFilterAccepts ==
    op.name = "check_weapon_impacts" =>
        \A g \in op.gone : g.power > 0 =>
            /\ Cardinality(PrimaryRequests(g.w)) <= 1
            /\ Cardinality({i \in Attempts : log[i].w = g.w}) = 1
            /\ \A i \in Attempts : log[i].w = g.w =>
                   (Cardinality(PrimaryRequests(g.w)) = 1 <=> FilterAccepts(log[i]))

\* two weapons of positive power impact in one tick, and one of them explodes
C1_Witness ==
    /\ op.name = "check_weapon_impacts"
    /\ Cardinality({g \in op.gone : g.power > 0}) = 2
    /\ \E g \in op.gone : Cardinality(PrimaryRequests(g.w)) = 1

\* an attempt made within protection_radius of a recorded explosion younger
\* than ten seconds
NearYoungExplosion(a) ==
    \E i \in 1..Len(a.recent) :
        /\ distance_3d_sq(a.recent[i].position, a.pos)
               <= config.ordnance_protection.protection_radius
                  * config.ordnance_protection.protection_radius
        /\ a.at - a.recent[i].time < 10000

\* C2: with ordnance protection enabled, an explosion attempted within
\* protection_radius of a recorded explosion younger than ten seconds makes
\* no host request of any kind for that attempt.
C2_SuppressedNearRecent ==
    \A i \in Attempts :
        (config.ordnance_protection.enabled /\ NearYoungExplosion(log[i])) =>
            \A k \in 1..Len(out) : out[k].src # log[i].w

\* an attempt of a weapon of positive power next to an explosion recorded
\* five seconds before it
C2_Witness ==
    \E i \in Attempts :
        /\ config.ordnance_protection.enabled
        /\ NearYoungExplosion(log[i])
        /\ config.weapon_powers[log[i].weapon_type] > 0
        /\ \E k \in 1..Len(log[i].recent) : log[i].at - log[i].recent[k].time = 5000

(***************************************************************************)
(* The cook-off scheduler alone, reached through cookoff_mut(): damage     *)
(* notifications, updates, movement tracking and the passing of time.      *)
(* The scheduler is built with one flare and one piece of debris per       *)
(* cook-off, the vehicles are barrels.                                     *)
(***************************************************************************)
SmallCookOffConfig ==
    [DefaultCookOffConfig EXCEPT !.debris.count = [min |-> 1, max |-> 1],
                                 !.flares.instant = [enabled |-> TRUE, min |-> 1, max |-> 1]]

InitC == InitWith(SmallCookOffConfig)

RollsC ==
    [effects_roll : {0}, cookoff_roll : {0}, smoke_roll : {0}, flare_roll : {0},
     instant_count : {1}, flare_delay_roll : {0}, delay_rolls : {<<200, 0>>},
     power_roll : {500}, debris_count : {1}, debris_delay : {500}]

UnitPositions == {<<0, 0, 0>>, <<10, 0, 0>>}

DurationsC == {5000}

\* damage below the threshold, damage beyond it, and a death
HitsC == {[health_percent |-> 60, is_dead |-> FALSE], [health_percent |-> 10, is_dead |-> FALSE],
          [health_percent |-> 60, is_dead |-> TRUE]}

NextC ==
    \/ \E u \in UnitIds, x \in HitsC :
          ProcessUnitHit(u, "Barrel", <<0, 0, 0>>, x.health_percent, x.is_dead, RollsC)
    \/ Update(RollsC, DurationsC)
    \/ Advance(1000, MaxTimeC)

SpecC == InitC /\ [][NextC]_vars

(***************************************************************************)
(* schedule_cookoff_effects_for_effect as a function of the scheduled      *)
(* effect and of the draws of the generator: counts of one to three,       *)
(* timing random or even, power fixed or varied, and draws at both ends    *)
(* of the range.                                                           *)
(***************************************************************************)
CookoffEffects ==
    {[unit_id |-> 1, unit_type |-> "Barrel", position |-> <<0, 0, 0>>,
      explosion |-> [power |-> 25000, enabled |-> TRUE],
      cookoff |-> [enabled |-> TRUE, count |-> n, power |-> 6000, duration |-> d,
                   random_timing |-> t, power_random |-> v],
      smoke |-> [is_tanker |-> FALSE, size |-> 3, duration |-> 90]] :
        n \in {1, 2, 3}, d \in {15000, 20000}, t \in BOOLEAN, v \in {0, 50}}

RollsE ==
    {[r EXCEPT !.delay_rolls = d, !.power_roll = p] :
        r \in RollsC, d \in {<<0, 0, 0>>, <<200, 0, 999>>, <<999, 999, 999>>},
        p \in {0, 500, 999}}

NextE ==
    \/ /\ timed_explosions = <<>>
       /\ \E x \in CookoffEffects : ScheduleCookoffEffectsForEffect(x, RollsE)
    \/ /\ timed_explosions = <<>>
       /\ Advance(1000, MaxTimeS)

SpecE == InitC /\ [][NextE]_vars

(***************************************************************************)
(* The cook-off scheduler with a host that fails the third call of a       *)
(* damage notification: the smoke of the scheduled effect, after its       *)
(* explosion was sent.                                                     *)
(***************************************************************************)
NextF ==
    \/ \E u \in UnitIds, x \in HitsC :
          ProcessUnitHitFailing(u, "Barrel", <<0, 0, 0>>, x.health_percent, x.is_dead,
                                RollsC, {0, 3})
    \/ Update(RollsC, DurationsC)
    \/ Advance(1000, MaxTimeC)

SpecF == InitC /\ [][NextF]_vars

(***************************************************************************)
(* The retention of the processed-unit records: damage notifications and   *)
(* updates five minutes apart.                                             *)
(***************************************************************************)
NextR ==
    \/ \E u \in UnitIds, x \in HitsC :
          ProcessUnitHit(u, "Barrel", <<0, 0, 0>>, x.health_percent, x.is_dead, RollsC)
    \/ Update(RollsC, DurationsC)
    \/ Advance(300000, MaxTimeLong)

SpecR == InitC /\ [][NextR]_vars

(***************************************************************************)
(* The movement tracker alone: damage notifications, the sampling of the   *)
(* tracked units and the passing of time.                                  *)
(***************************************************************************)
NextM ==
    \/ \E u \in UnitIds, x \in HitsC :
          ProcessUnitHit(u, "Barrel", <<0, 0, 0>>, x.health_percent, x.is_dead, RollsC)
    \/ UpdateMovementTracking(UnitPositions, RollsC)
    \/ Advance(1000, MaxTimeC)

SpecM == InitC /\ [][NextM]_vars

(***************************************************************************)
(* The damage notification alone: units of a configured type and of        *)
(* another type, with health around the damage threshold.                  *)
(***************************************************************************)
HitsH == [health_percent : {24, 25, 26, 30}, is_dead : BOOLEAN]

UnitTypesH == {"Barrel", "Truck"}

\* the rolls of RollsC, with a delay for each of the four cook-offs of a
\* vehicle of no configured type
RollsH == {[r EXCEPT !.delay_rolls = <<200, 0, 100, 300>>] : r \in RollsC}

NextH ==
    \/ \E t \in UnitTypesH, x \in HitsH :
          ProcessUnitHit(1, t, <<0, 0, 0>>, x.health_percent, x.is_dead, RollsH)
    \/ Update(RollsH, DurationsC)
    \/ Advance(1000, MaxTimeC)

SpecH == InitC /\ [][NextH]_vars

(***************************************************************************)
(* The rejection of a damage notification: the cook-off configuration as   *)
(* update_cookoff_config can set it, with the all-vehicles switch on and   *)
(* off and an effects chance of 50 % and of 100 %; units of a configured   *)
(* type and of another type; effects draws of 0 and of 0.7.                *)
(***************************************************************************)
RejectConfigs ==
    {[SmallCookOffConfig EXCEPT !.all_vehicles.enabled = a, !.effects_chance = c] :
        a \in BOOLEAN, c \in {500, 1000}}

InitN == \E c \in RejectConfigs : InitWith(c)

NextN ==
    \/ \E u \in UnitIds, t \in UnitTypesH, x \in HitsC :
          ProcessUnitHit(u, t, <<0, 0, 0>>, x.health_percent, x.is_dead,
                         {[r EXCEPT !.effects_roll = y] : r \in RollsH, y \in {0, 700}})
    \/ Advance(1000, MaxTimeS)

SpecN == InitN /\ [][NextN]_vars

(***************************************************************************)
(* The timed queue under a host that keeps calling update: damage is       *)
(* reported at the start, the clock moves on only when no update is due,   *)
(* and neither the updates nor the clock stop.                             *)
(***************************************************************************)
\* an update called now would not be skipped by the governor
UpdateDue ==
    /\ cookoff_config.enabled
    /\ now - last_update_time >= adaptive_update_interval

AdvanceL(d, max) ==
    /\ ~UpdateDue
    /\ Advance(d, max)

NextL ==
    \/ /\ now = 0
       /\ \E x \in HitsC :
             ProcessUnitHit(1, "Barrel", <<0, 0, 0>>, x.health_percent, x.is_dead, RollsC)
    \/ Update(RollsC, DurationsC)
    \/ AdvanceL(1000, MaxTimeL)

\* the clock can move on
AdvanceDue == ~UpdateDue /\ now + 1000 <= MaxTimeL

\* weak fairness of the executed update and of the clock, with the enabling
\* conditions written out
SpecL ==
    /\ InitC
    /\ [][NextL]_vars
    /\ ([]<>(~UpdateDue) \/ []<><<Update(RollsC, DurationsC)>>_vars)
    /\ ([]<>(~AdvanceDue) \/ []<><<AdvanceL(1000, MaxTimeL)>>_vars)

(***************************************************************************)
(* The governor alone: updates of varying cost, half a second apart.       *)
(***************************************************************************)
DurationsG == {3000, 28000}

NextG ==
    \/ Update(RollsC, DurationsG)
    \/ Advance(500, MaxTimeG)

SpecG == InitC /\ [][NextG]_vars

(***************************************************************************)
(* The engine as the host drives it: shots, unit damage, ticks and the     *)
(* passing of time.                                                        *)
(***************************************************************************)
Next ==
    \/ \E x \in BOOLEAN : HandleWeaponShot("Mk_82", <<0, 100, 0>>, x)
    \/ \E x \in HitsC : HandleUnitHit(1, "Barrel", <<0, 0, 0>>, x.health_percent, x.is_dead, RollsC)
    \/ Cleanup(FlightPositions, ImpactPoints, WorldW, {<<0, 0, 0>>}, RollsC, DurationsC)
    \/ Advance(1000, MaxTimeS)

Spec == InitC /\ [][Next]_vars

(***************************************************************************)
(* The engine switched off and on by the main configuration, with every    *)
(* public entry point called in either condition.                          *)
(***************************************************************************)
NextD ==
    \/ \E x \in BOOLEAN : UpdateFromMainConfig(x)
    \/ HandleWeaponShot("Mk_82", <<0, 100, 0>>, TRUE)
    \/ CheckWeaponImpacts({}, {}, {TRUE}, WorldW)
    \/ HandleUnitHit(1, "Barrel", <<0, 0, 0>>, 10, FALSE, RollsC)
    \/ Cleanup({}, {}, WorldW, {<<0, 0, 0>>}, RollsC, DurationsC)
    \/ CreateWaveExplosion(<<0, 0, 0>>, 100000, "Mk_82", WorldW)
    \/ Advance(1000, MaxTimeS)

SpecD == InitC /\ [][NextD]_vars

(***************************************************************************)
(* Properties of the cook-off scheduler.                                   *)
(***************************************************************************)
\* the units the last operation made host requests for
Requested == {out[i].src : i \in 1..Len(out)}

\* C3: for a unit whose pending effect came from a non-death notification,
\* no cook-off effect (a host request, or the enqueueing of its timed
\* explosions) happens before the host has answered max_stationary_checks
\* stationary samples in a row for it.
C3_NoEffectBeforeStationary ==
    op.name \in {"process_unit_hit", "update", "update_movement_tracking"} =>
        \A u \in Requested \cup Logged(log, "enqueue") :
            ~hist.dead[u] => hist.still[u] >= 3

\* C4: timed explosions are fired in non-decreasing trigger-time order, within
\* an update and from one update to the next.
C4_FiredInTriggerOrder ==
    op.name = "update" =>
        LET fired == FiredTimes(log)
        IN \A i \in 1..Len(fired) :
              /\ op.max_fired <= fired[i]
              /\ \A j \in 1..(i - 1) : fired[j] <= fired[i]

\* C5: two pending effects of one unit are created at least five minutes
\* apart: while the processed-unit record of the first is kept, no damage
\* notification creates another.
C5_OneCreationPerRetention ==
    \A u \in UnitIds :
        \A k \in 2..Len(hist.created[u]) :
            hist.created[u][k] - hist.created[u][k - 1] >= 300000

\* a unit hit again once its record expired: a second pending effect
C5_Witness ==
    \E u \in UnitIds :
        /\ Len(hist.created[u]) = 2
        /\ op.name = "process_unit_hit"
        /\ op.unit_id = u

\* C6: each unit id has at most one pending effect, one movement tracker and
\* one scheduled effect in effect_queue.
C6_AtMostOnePerUnit ==
    /\ \A u \in DOMAIN pending_effects : pending_effects[u].unit_id = u
    /\ \A u \in DOMAIN movement_tracking : movement_tracking[u].unit_id = u
    /\ \A u \in UnitIds :
          Cardinality({i \in 1..Len(effect_queue) : effect_queue[i].unit_id = u}) <= 1

\* the sample of the last movement tracking for a unit was stationary
StationarySample(x) ==
    x.found /\ distance_3d_sq(x.position, x.last_position) < 10 * 10

\* C7: the movement tracking promotes a unit on exactly the sample that makes
\* max_stationary_checks stationary samples in a row: then it invokes
\* trigger_effects_immediately for it and removes its tracker, and it
\* invokes it on no other sample.
C7_PromotedExactlyAtMax ==
    op.name = "update_movement_tracking" =>
        \A x \in op.sampled :
            /\ (StationarySample(x) /\ hist.still[x.unit_id] = 3) =>
                  /\ x.unit_id \in Logged(log, "trigger")
                  /\ x.unit_id \notin DOMAIN movement_tracking
            /\ x.unit_id \in Logged(log, "trigger") =>
                  (StationarySample(x) /\ hist.still[x.unit_id] = 3)

\* C8: on a sample where the tracked unit is found and has moved by
\* movement_threshold or more since the previous sample, its tracker stays,
\* with a stationary counter of 0 and the new position.
C8_MovedResetsCounter ==
    op.name = "update_movement_tracking" =>
        \A x \in op.sampled :
            (x.found /\ distance_3d_sq(x.position, x.last_position) >= 10 * 10) =>
                /\ x.unit_id \in DOMAIN movement_tracking
                /\ movement_tracking[x.unit_id].stationary_checks = 0
                /\ movement_tracking[x.unit_id].last_position = x.position

\* a unit that had been counted stationary is sampled one metre away
C8_Witness ==
    /\ op.name = "update_movement_tracking"
    /\ \E x \in op.sampled :
          /\ x.found
          /\ distance_3d_sq(x.position, x.last_position) = 10 * 10
          /\ x.stationary_checks > 0
          /\ movement_tracking[x.unit_id].stationary_checks = 0

(***************************************************************************)
(* Properties of the tick and of the governor.                             *)
(***************************************************************************)
\* a step that is a tick less than the adaptive interval after the last
\* executed cook-off update
SkippedTick ==
    /\ op'.name = "cleanup"
    /\ now' = now
    /\ now - last_update_time < adaptive_update_interval

C10_ModeFollowsAverage ==
    /\ Len(update_times) <= 10
    /\ Len(update_times) >= 5 =>
          LET avg == SeqSum(update_times) \div Len(update_times)
          IN /\ avg > 25000 => performance_mode = "Critical" /\ adaptive_update_interval = 750
             /\ (avg > 16000 /\ avg <= 25000) =>
                   performance_mode = "Minimal" /\ adaptive_update_interval = 400
             /\ (avg > 10000 /\ avg <= 16000) =>
                   performance_mode = "Reduced" /\ adaptive_update_interval = 200
             /\ avg <= 10000 => performance_mode = "Normal" /\ adaptive_update_interval = 100

\* five costs averaging 18 ms: Minimal and 400 ms
C10_Witness ==
    /\ op.name = "update"
    /\ Len(update_times) = 5
    /\ SeqSum(update_times) \div 5 = 18000
    /\ performance_mode = "Minimal"
    /\ adaptive_update_interval = 400

(***************************************************************************)
(* Properties of the impact, of the tick's error handling and of the       *)
(* damage notification.                                                    *)
(***************************************************************************)
\* C11: an impact whose explosion the ordnance-protection filter rejects
\* makes no host request of any kind: no primary explosion, no smoke, no
\* bomblet, no cascade or secondary explosion.
C11_RejectedImpactIsSilent ==
    \A i \in Attempts :
        (config.weapon_powers[log[i].weapon_type] > 0 /\ ~FilterAccepts(log[i])) =>
            \A k \in 1..Len(out) : out[k].src # log[i].w

\* an impact rejected for a weapon still in flight next to it, with no
\* recorded explosion near
C11_Witness ==
    /\ op.name = "check_weapon_impacts"
    /\ \E i \in Attempts :
          /\ config.weapon_powers[log[i].weapon_type] > 0
          /\ ~FilterAccepts(log[i])
          /\ ~NearYoungExplosion(log[i])
          /\ \E p \in log[i].tracked : distance_3d_sq(p, log[i].pos) <= 200 * 200

\* a tick whose cook-off update was let run by the governor
ExecutedTick == op.name = "cleanup" /\ op.elapsed >= op.interval

\* C12: a tick in which a host effect call fails is carried through all the
\* same: every queued effect is drained and handled in full, every timed
\* explosion that is due is fired, and the movement trackers that are due
\* are sampled.
C12_FailureDoesNotAbort ==
    (ExecutedTick /\ \E k \in 1..Len(out) : ~out[k].ok) =>
        /\ effect_queue = <<>>
        /\ Logged(log, "drain") \subseteq Logged(log, "enqueue")
        /\ timed_explosions # <<>> => now < Head(timed_explosions).trigger_time
        /\ \A u \in DOMAIN movement_tracking : ~should_update(movement_tracking[u])

\* C13: no timed explosion is fired early: each one that an operation fired
\* or discarded had a trigger time not after the time of the operation.
C13_NeverFiredEarly ==
    \A i \in 1..Len(log) : log[i].kind = "fired" => log[i].trigger_time <= now

\* an update fired a timed explosion that was due and left the one behind it,
\* due later, in the queue
C13_Witness ==
    /\ op.name = "update"
    /\ \E i \in 1..Len(log) : log[i].kind = "fired" /\ log[i].trigger_time <= now
    /\ timed_explosions # <<>>
    /\ Head(timed_explosions).trigger_time > now

\* the damage threshold that applies to a unit type
ThresholdFor(unit_type) ==
    IF unit_type \in DOMAIN units THEN cookoff_config.damage_threshold
    ELSE cookoff_config.all_vehicles.damage_threshold

DeathCreated ==
    /\ op.name = "process_unit_hit"
    /\ op.is_dead
    /\ op.unit_id \in Logged(log, "created")

\* C15: a damage notification with the death flag that creates a pending
\* effect promotes and triggers it within the same call: when the call
\* returns the unit has no movement tracker and its scheduled effect is no
\* longer in effect_queue.
C15_DeathTriggersInTheCall ==
    DeathCreated =>
        /\ op.unit_id \notin DOMAIN movement_tracking
        /\ \A i \in 1..Len(effect_queue) : effect_queue[i].unit_id # op.unit_id

\* the public entry points of the engine
EntryPoints == {"handle_weapon_shot", "check_weapon_impacts", "cleanup", "handle_unit_hit",
                "create_wave_explosion"}

\* C16: while the engine is disabled, a call of any public entry point
\* changes no engine state and sends no request to the host.
C16_DisabledEngineDoesNothing ==
    [][(~config.enabled /\ op'.name \in EntryPoints) =>
          (UNCHANGED engineVars /\ out' = <<>>)]_vars

\* C17: after check_weapon_impacts returns, no weapon the host reported
\* missing during the call is still tracked, whether its explosion was made,
\* rejected, not attempted or failed at the host; and the tracker holds one
\* entry per host object id, all of them ids of weapons the host has shot.
C17_GoneWeaponsAreDropped ==
    /\ op.name = "check_weapon_impacts" =>
          \A g \in op.gone : g.w \notin DOMAIN tracked_weapons
    /\ DOMAIN tracked_weapons \subseteq {w \in WeaponIds : w < nextWeaponId}

\* two weapons reported missing in one call: the explosion request of one
\* fails at the host, the other has no explosion to make
C17_Witness ==
    /\ op.name = "check_weapon_impacts"
    /\ \E g1, g2 \in op.gone :
          /\ g1.power > 0
          /\ \E k \in 1..Len(out) : out[k].src = g1.w /\ out[k].kind = "explosion" /\ ~out[k].ok
          /\ g2.power = 0
          /\ \A k \in 1..Len(out) : out[k].src # g2.w
    /\ tracked_weapons = EmptyMap

\* the multiplier a flag selects: m when the flag holds, 1.0 otherwise
FactorIf(flag, m) == IF flag THEN m ELSE 1000

\* x times m thousandths is exactly y
IsProduct(y, x, m) == y * 1000 = x * m

\* C18: the power of a primary explosion request is the table power of the
\* weapon times overall_scaling, times rocket_multiplier if and only if the
\* type name matches the rocket pattern, times shaped_charge.multiplier if and
\* only if shaped charge is enabled and the type is HEAT-flagged.
C18_RealizedPower ==
    \A k \in 1..Len(out) :
        (out[k].kind = "explosion" /\ out[k].tag \in WeaponNames) =>
            LET n == out[k].tag
                scaled == (config.weapon_powers[n] * config.overall_scaling) \div 1000
                r == FactorIf(IsRocketName(n), config.rocket_multiplier)
                s == FactorIf(config.shaped_charge.enabled /\ n \in config.heat_weapons,
                              config.shaped_charge.multiplier)
                rocket == (scaled * r) \div 1000
            IN /\ IsProduct(scaled, config.weapon_powers[n], config.overall_scaling)
               /\ IsProduct(rocket, scaled, r)
               /\ IsProduct(out[k].power, rocket, s)

\* the HEAT scenario: table power 80, multiplier 0.2, overall_scaling 1.0,
\* realized power 16
C18_Witness ==
    /\ config.overall_scaling = 1000
    /\ config.shaped_charge.enabled
    /\ config.shaped_charge.multiplier = 200
    /\ config.weapon_powers["AGM_65D"] = 80000
    /\ \E k \in 1..Len(out) :
          out[k].kind = "explosion" /\ out[k].tag = "AGM_65D" /\ out[k].power = 16000

\* the requests of the cascade explosion of a scanned unit: an explosion
\* above the unit's ground position
CascadeRequests(unit_data) ==
    {k \in 1..Len(out) : /\ out[k].kind = "explosion"
                          /\ out[k].pos[1] = unit_data.position[1]
                          /\ out[k].pos[3] = unit_data.position[3]}

C20_FilterIsPure ==
    [][op'.name = "check_ordnance_protection" =>
          /\ UNCHANGED engineVars
          /\ out' = <<>>
          /\ op'.verdict[TRUE] = op'.verdict[FALSE]]_vars

\* the filter accepts a point close to the ground, where the destruction
\* check logs, while an explosion is on record and a weapon is tracked
C20_Witness ==
    /\ op.name = "check_ordnance_protection"
    /\ op.verdict[TRUE]
    /\ check_ordnance_destruction(Engine, [fail |-> 0], op.position)
    /\ recent_explosions # <<>>
    /\ tracked_weapons # EmptyMap

\* the cook-off update just run was executed, not skipped by the governor
ExecutedUpdate ==
    /\ op.name = "update"
    /\ cookoff_config.enabled
    /\ op.elapsed >= op.interval

\* C21: when an executed update returns, no timed explosion that was due at
\* the time of the update is left in the queue, wherever in the queue it was.
C21_DueEntriesAreFired ==
    ExecutedUpdate =>
        \A i \in 1..Len(timed_explosions) : timed_explosions[i].trigger_time > now

\* the trigger times of the model's timed explosions: enqueued at 0 or 1 s,
\* with the delays 0, 0.5 and 3 s of the rolls
TriggerTimesL == {t + d : t \in {0, 1000}, d \in {0, 500, 3000}}

Queued(t) == \E i \in 1..Len(timed_explosions) : timed_explosions[i].trigger_time = t

\* C22: while updates keep being executed and time passes every trigger
\* time, a timed explosion that is in the queue is eventually out of it.
C22_QueuedIsEventuallyDequeued ==
    /\ [](\A i \in 1..Len(timed_explosions) :
              timed_explosions[i].trigger_time \in TriggerTimesL)
    /\ \A t \in TriggerTimesL : Queued(t) ~> ~Queued(t)

\* an entry due at 1 s waits in the queue behind an entry due at 4 s
C22_Witness ==
    /\ Len(timed_explosions) >= 2
    /\ timed_explosions[1].trigger_time = 4000
    /\ timed_explosions[2].trigger_time = 1000
    /\ now = 1000

\* a step that is a call of check_weapon_impacts: time stands still in it
ImpactCheckStep == op'.name = "check_weapon_impacts" /\ now' = now

\* the records stamped with the current time
StampedNow(recent) == {i \in 1..Len(recent) : recent[i].time = now}

\* the primary explosion requests a call got through to the host
Realized(requests) ==
    {k \in 1..Len(requests) : /\ requests[k].kind = "explosion"
                               /\ requests[k].tag \in WeaponNames
                               /\ requests[k].ok}

\* C23: an impact check appends one RecentExplosion record per explosion it
\* realizes, and none for an impact whose explosion the filter suppressed or
\* that had no explosion to make.
C23_RecordIffRealized ==
    [][ImpactCheckStep =>
          Cardinality(StampedNow(recent_explosions')) - Cardinality(StampedNow(recent_explosions))
              = Cardinality(Realized(out'))]_vars

\* C24: at every ordnance-protection check of an impact, every recorded
\* explosion the filter consults is at most ten seconds old.
C24_ConsultedRecordsAreYoung ==
    \A i \in Attempts :
        \A k \in 1..Len(log[i].recent) : log[i].at - log[i].recent[k].time <= 10000

\* C25: when the filter evaluates the explosion of an impact, the tracker is
\* already as check_weapon_impacts leaves it: no weapon reported gone in the
\* call is tracked, the impacting weapon least of all, and the weapons still
\* flying are at their updated positions.
C25_TrackerSettledBeforeExplosions ==
    op.name = "check_weapon_impacts" =>
        \A i \in Attempts :
            /\ log[i].w \notin log[i].ids
            /\ \A g \in op.gone : g.w \notin log[i].ids
            /\ log[i].ids = DOMAIN tracked_weapons
            /\ log[i].tracked = {tracked_weapons[w].position : w \in DOMAIN tracked_weapons}

\* a bomb whose impact point is ten metres from its last tracked position
\* explodes, in a call that also moves a weapon still in flight
C25_Witness ==
    /\ op.name = "check_weapon_impacts"
    /\ \E i \in Attempts :
          /\ \E k \in 1..Len(out) :
                out[k].src = log[i].w /\ out[k].kind = "explosion" /\ out[k].ok
          /\ log[i].ids # {}
          /\ log[i].tracked = FlightPositions

\* C26: the impact position of a weapon that disappeared is the last
\* prediction any tick computed for it, and its last known position only
\* when no tick ever computed one.
C26_ImpactAtLastPrediction ==
    [][ImpactCheckStep =>
          \A i \in 1..Len(op'.impacts) :
              op'.impacts[i].explosion_point =
                  IF hist.predicted[op'.impacts[i].w] # None
                  THEN hist.predicted[op'.impacts[i].w]
                  ELSE tracked_weapons[op'.impacts[i].w].position]_vars

\* C27: a tracked unit that the host cannot relocate on a sample is promoted
\* on that sample: trigger_effects_immediately is invoked for it and its
\* tracker is removed.
C27_LostUnitIsPromoted ==
    op.name = "update_movement_tracking" =>
        \A x \in op.sampled :
            ~x.found =>
                /\ x.unit_id \in Logged(log, "trigger")
                /\ x.unit_id \notin DOMAIN movement_tracking

\* a host that answers every request
HostOk == [fail |-> 0]

\* the engine after a call, but for the notes of the model
Untouched(e) == [e EXCEPT !.log = <<>>, !.cur = 0] = Engine

C29_QueryFailuresAreAbsorbed ==
    op.name = "handle_weapon_shot" =>
        /\ op.result = "Ok"
        /\ (op.weapon_type \in DOMAIN config.weapon_powers /\ ~op.answers.is_exist_ok) =>
               op.weapon_id \in DOMAIN tracked_weapons

\* a step that is a call of handle_weapon_shot
ShotStep == op'.name = "handle_weapon_shot" /\ now' = now

\* the weapon of the shot is the one entry that is new or changed, and
\* nothing else of the engine changes
OneEntryTracked ==
    /\ DOMAIN tracked_weapons' = DOMAIN tracked_weapons \cup {op'.weapon_id}
    /\ \A w \in DOMAIN tracked_weapons \ {op'.weapon_id} :
          tracked_weapons'[w] = tracked_weapons[w]
    /\ tracked_weapons'[op'.weapon_id] =
          [weapon_type |-> op'.weapon_type, position |-> op'.position,
           predicted_impact |-> None]
    /\ UNCHANGED <<config, recent_explosions, cookoff_config, units, pending_effects,
                   processed_units, processed_smoke, effect_queue, timed_explosions,
                   movement_tracking, update_times, last_update_time,
                   adaptive_update_interval, performance_mode>>
    /\ out' = <<>>

\* the rejections the specification lists
RejectedShot ==
    \/ ~config.enabled
    \/ op'.weapon_type \notin DOMAIN config.weapon_powers
    \/ config.only_players_weapons /\ ~op'.answers.is_player

\* the shot of a weapon that is gone, or whose existence the host cannot tell
LostShot == ~op'.answers.is_exist_ok \/ ~op'.is_exist

NewCookoffs ==
    SelectSeq(SubSeq(timed_explosions, op.queued + 1, Len(timed_explosions)),
              LAMBDA x : x.effect_type = "Cookoff")

\* C31: a cook-off of count N puts exactly N Cookoff entries on the timer,
\* each due within the duration and of a power within power_random percent
\* of the base power; with random_timing off the i-th (from 0) is due
\* i * duration / N after the call, so they are queued in the order they
\* are due.
C31_CookoffEntries ==
    op.name = "schedule_cookoff_effects_for_effect" =>
        LET c == op.effect.cookoff
        IN /\ Len(NewCookoffs) = c.count
           /\ \A k \in 1..Len(NewCookoffs) :
                 /\ NewCookoffs[k].trigger_time >= now
                 /\ NewCookoffs[k].trigger_time <= now + c.duration
                 /\ NewCookoffs[k].power * 100 >= c.power * (100 - c.power_random)
                 /\ NewCookoffs[k].power * 100 <= c.power * (100 + c.power_random)
                 /\ ~c.random_timing =>
                        NewCookoffs[k].trigger_time = now + ((k - 1) * c.duration) \div c.count
           /\ ~c.random_timing =>
                 \A k \in 2..Len(NewCookoffs) :
                     NewCookoffs[k - 1].trigger_time <= NewCookoffs[k].trigger_time

\* three evenly spaced explosions of a 20 s cook-off, the last 13.333 s
\* after the call, with the power draw at the low end
C31_Witness ==
    /\ op.name = "schedule_cookoff_effects_for_effect"
    /\ ~op.effect.cookoff.random_timing
    /\ Len(NewCookoffs) = 3
    /\ NewCookoffs[3].trigger_time = now + 13333
    /\ NewCookoffs[3].power = 3000

\* a recorded explosion within the protection radius (20 m) of the point
RecentNear(position) ==
    \E i \in 1..Len(recent_explosions) :
        distance_3d_sq(recent_explosions[i].position, position) <= 200 * 200

\* a tracked weapon within the protection radius of the point
TrackedNear(position) ==
    \E w \in DOMAIN tracked_weapons :
        distance_3d_sq(tracked_weapons[w].position, position) <= 200 * 200

\* a recorded explosion of radius above 50 m, of the last 4 s, within 100 m
LargeNear(position) ==
    \E i \in 1..Len(recent_explosions) :
        /\ recent_explosions[i].radius > 500
        /\ now - recent_explosions[i].time <= 4000
        /\ distance_3d_sq(recent_explosions[i].position, position) <= 1000 * 1000

\* C32: check_ordnance_protection answers false exactly when a recorded
\* explosion or a tracked weapon lies within protection_radius of the point,
\* or a recorded explosion of radius above 50 m happened within
\* recent_large_explosion_time and recent_large_explosion_range of it; in
\* every other case it answers true.
C32_FilterVerdict ==
    [][(op'.name = "check_ordnance_protection" /\ now' = now) =>
          (~op'.verdict[TRUE] <=>
              \/ RecentNear(op'.position)
              \/ TrackedNear(op'.position)
              \/ LargeNear(op'.position))]_vars

\* the filter rejects a point for a large explosion alone: nothing recorded
\* or tracked within 20 m of it
C32_Witness ==
    /\ op.name = "check_ordnance_protection"
    /\ now < 4000
    /\ ~op.verdict[TRUE]
    /\ ~RecentNear(op.position)
    /\ ~TrackedNear(op.position)
    /\ LargeNear(op.position)

\* the filter accepts a point while an explosion is on record within 100 m
\* of it, too small or too old to count
C32_WitnessAccept ==
    /\ op.name = "check_ordnance_protection"
    /\ op.verdict[TRUE]
    /\ \E i \in 1..Len(recent_explosions) :
          distance_3d_sq(recent_explosions[i].position, op.position) <= 1000 * 1000

\* the explosion requests the last operation made under a cascade name
WaveCascadeRequests ==
    {i \in 1..Len(out) : out[i].kind = "explosion" /\ out[i].tag = CascadeName(op.weapon_type)}

\* the last operation was a wave explosion that made its main request, with
\* the always-on cascade enabled and the scaled power at the wave threshold
AlwaysCascadeCase ==
    /\ op.name = "create_wave_explosion"
    /\ op.fail = 0
    /\ config.wave_explosions.always_cascade_explode
    /\ config.wave_explosions.scaling > 1000
    /\ Mul(op.power, config.wave_explosions.scaling) >= config.wave_explosions.damage_threshold
    /\ \E i \in 1..Len(out) : out[i].kind = "explosion" /\ out[i].tag = op.weapon_type

C33_CascadeNeverRequested ==
    op.name = "create_wave_explosion" =>
        \A i \in 1..Len(out) :
            out[i].kind = "explosion" => out[i].tag \in WeaponNames \cup {"ground_cascade"}

\* C34 as stated: the blast damage never exceeds the explosion power, and
\* equals it at distance 0.
C34_DamageAtMostPower ==
    op.name = "calculate_blast_damage" =>
        /\ op.damage <= op.explosion_power
        /\ op.distance_sq = 0 => op.damage = op.explosion_power

\* what the code does: power / distance^2 without a clamp, which is at most
\* the power from one metre on and exceeds it below one metre
C34_DamageAtMostPowerFromOneMetre ==
    op.name = "calculate_blast_damage" =>
        /\ op.distance_sq >= 100 => op.damage <= op.explosion_power
        /\ op.distance_sq = 0 => op.damage = op.explosion_power
        /\ (op.distance_sq \in 1..99 /\ op.explosion_power >= 1000)
              => op.damage > op.explosion_power

\* the bomblet explosions the last operation asked the host for
BombletRequests == {i \in 1..Len(out) : out[i].kind = "explosion" /\ out[i].tag = "bomblet"}

RECURSIVE SumPower(_)
SumPower(S) ==
    IF S = {} THEN 0 ELSE LET i == CHOOSE x \in S : TRUE IN out[i].power + SumPower(S \ {i})

\* the last operation opened a cluster munition whose submunition is not in
\* the submunition-power table
UnlistedSubmunition ==
    /\ op.name = "handle_cluster_bomb_effects"
    /\ get_submunition_name(op.weapon_name) \notin DOMAIN config.cluster_bombs.submunition_powers

C35_BombletsGetModifiedParentPower ==
    UnlistedSubmunition =>
        /\ Cardinality(BombletRequests) = op.bomblet_count
        /\ \A i \in BombletRequests : out[i].power = 2 * op.power

\* the requests among o that sent the initial cook-off explosion of unit u:
\* answered by the host, and of the explosion power of the unit's type
InitialSent(o, u) ==
    {i \in 1..Len(o) : /\ o[i].kind = "explosion" /\ o[i].tag = "cookoff"
                        /\ o[i].src = u /\ o[i].ok
                        /\ o[i].power = units["Barrel"].explosion.power}

\* C36 as stated: the initial cook-off explosion of a pending effect is sent
\* at most once, host failures included: an update does not send the
\* initial explosion of a unit whose damage notification, the operation
\* before it, has sent it already, and no operation sends it twice.
C36_InitialExplosionAtMostOnce ==
    [][(op'.name = "update" /\ now' = now) =>
          \A u \in UnitIds :
              /\ Cardinality(InitialSent(out', u)) <= 1
              /\ (op.name = "process_unit_hit" /\ op.unit_id = u /\ InitialSent(out, u) # {})
                    => InitialSent(out', u) = {}]_vars

\* what the code keeps: without a failed host call between them, the damage
\* notification and the update after it do not both send the explosion
C36_AtMostOnceWithoutFailure ==
    [][(op'.name = "update" /\ now' = now /\ op.name = "process_unit_hit" /\ op.fail = 0) =>
          InitialSent(out, op.unit_id) = {} \/ InitialSent(out', op.unit_id) = {}]_vars

\* C37: every stored MovementTracker has 0 <= stationary_checks <
\* max_stationary_checks, and after a movement tracking without a failed
\* host call a tracker whose count would have reached the maximum is not
\* stored: it is removed.
C37_StoredCountBelowMax ==
    /\ \A u \in DOMAIN movement_tracking :
          /\ movement_tracking[u].stationary_checks >= 0
          /\ movement_tracking[u].stationary_checks < movement_tracking[u].max_stationary_checks
    /\ (op.name = "update_movement_tracking" /\ op.fail = 0) =>
          \A x \in op.sampled :
              (StationarySample(x) /\ x.stationary_checks + 1 >= 3)
                  => x.unit_id \notin DOMAIN movement_tracking

\* a tracker with two stationary samples is removed on the third while the
\* tracker of another unit stays stored
C37_Witness ==
    /\ op.name = "update_movement_tracking"
    /\ op.fail = 0
    /\ \E x \in op.sampled :
          /\ StationarySample(x)
          /\ x.stationary_checks = 2
          /\ x.unit_id \notin DOMAIN movement_tracking
    /\ \E u \in DOMAIN movement_tracking : movement_tracking[u].stationary_checks > 0

\* the reasons for which process_unit_hit rejects the notification o
NotCandidate(o) ==
    o.unit_type \notin DOMAIN units /\ ~cookoff_config.all_vehicles.enabled

AboveThreshold(o) ==
    /\ ~o.is_dead
    /\ o.health_percent > (IF o.unit_type \in DOMAIN units THEN cookoff_config.damage_threshold
                           ELSE cookoff_config.all_vehicles.damage_threshold)

DrawFailed(o) == o.effects_roll > cookoff_config.effects_chance

\* C38: a damage notification rejected because the unit is not a
\* candidate, because its health is above the threshold and it is not
\* dead, or because the effects-chance draw fails, leaves processed_units,
\* pending_effects, effect_queue and movement_tracking as they were.
C38_RejectedHitChangesNothing ==
    [][(/\ op'.name = "process_unit_hit"
        /\ now' = now
        /\ NotCandidate(op') \/ AboveThreshold(op') \/ DrawFailed(op'))
          => UNCHANGED <<processed_units, pending_effects, effect_queue, movement_tracking>>]_vars

\* a first notification for a unit is rejected by the draw alone, and the
\* unit has no processed-unit record after it
C38_Witness ==
    /\ op.name = "process_unit_hit"
    /\ op.fresh
    /\ DrawFailed(op)
    /\ ~NotCandidate(op)
    /\ ~AboveThreshold(op)
    /\ op.unit_id \notin DOMAIN processed_units

\* a first notification is rejected because the unit is not a candidate
C38_WitnessNotCandidate ==
    /\ op.name = "process_unit_hit"
    /\ op.fresh
    /\ NotCandidate(op)
    /\ op.is_dead
    /\ op.unit_id \notin DOMAIN processed_units

\* the per-unit cascade explosions the last operation asked the host for
UnitCascadeRequests ==
    {i \in 1..Len(out) : out[i].kind = "explosion" /\ out[i].tag = "ground_cascade"}

\* the last operation was a wave explosion, without a failed host call, whose
\* scan found the vehicle five metres from its center
ScannedWave ==
    /\ op.name = "create_wave_explosion"
    /\ op.fail = 0
    /\ op.center = <<0, 0, 0>>
    /\ \E i \in 1..Len(out) : out[i].kind = "explosion" /\ out[i].tag = op.weapon_type

C39_WitnessFullThreshold ==
    /\ ScannedWave
    /\ config.cascade_explode_threshold = 100
    /\ UnitCascadeRequests # {}

\* C40: update_from_main_config(false) clears the engine flag and the
\* cook-off flag, update_from_main_config(true) sets the engine flag alone,
\* so after false-then-true the cook-off scheduler stays disabled: a damage
\* notification changes nothing and the tick's cook-off update does not
\* run.
C40_ReenablingLeavesCookoffDisabled ==
    [][now' = now =>
          /\ (op'.name = "update_from_main_config" /\ ~op'.enabled)
                => (~config'.enabled /\ ~cookoff_config'.enabled)
          /\ (op'.name = "update_from_main_config" /\ op'.enabled)
                => (config'.enabled /\ cookoff_config' = cookoff_config)
          /\ ~cookoff_config.enabled => ~cookoff_config'.enabled
          /\ (~cookoff_config.enabled /\ op'.name = "handle_unit_hit")
                => (UNCHANGED engineVars /\ out' = <<>>)
          /\ (~cookoff_config.enabled /\ op'.name = "cleanup")
                => /\ UNCHANGED <<pending_effects, processed_units, processed_smoke,
                                  update_times, last_update_time>>
                   /\ Logged(log', "drain") = {}
                   /\ Logged(log', "fired") = {}]_vars

\* the engine enabled again after it was disabled, the cook-off scheduler
\* still disabled, and a damage notification that created nothing
C40_Witness ==
    /\ config.enabled
    /\ ~cookoff_config.enabled
    /\ op.name = "handle_unit_hit"
    /\ op.health_percent = 10
    /\ pending_effects = EmptyMap
    /\ processed_units = EmptyMap

====
